---------------------------- MODULE Spec2Model ----------------------------
(***************************************************************************)
(* A model of the onmore webhook relay (src/index.js, first snapshot,      *)
(* lines 1-934): the dedup guard, the signature check, the webhook ingest  *)
(* pipeline, the chat API and the analytics aggregator.                    *)
(*                                                                         *)
(* The process is single-threaded and event-driven: the code between two   *)
(* awaits of real I/O runs atomically, so every action below is one such   *)
(* segment (the resumption after an await up to the next await).  An       *)
(* external call's effect on the store and its return are one instant.     *)
(***************************************************************************)
EXTENDS Integers, Sequences, FiniteSets, TLC

(***************************************************************************)
(* Bounds of the model.                                                    *)
(***************************************************************************)
\* src/index.js:156 sets MAX_CACHE_SIZE = 5000; the model scales it down so
\* that the capacity clear is reachable.
MAX_CACHE_SIZE == 2
\* number of distinct platform message ids
NumMids == 3
\* longest recorded sequence of markProcessed calls
MaxMarks == 4
\* number of requests in flight at once (task slots)
NumTasks == 2
\* webhook POSTs received in one behaviour
MaxDeliveries == 2
\* direct saveConversation / saveLead operations in one behaviour
MaxOps == 3
\* calendar days the clock runs through
NumDays == 2
\* store calls and tenant lookups that fail in one behaviour
MaxFaults == 1
\* frames one event stream carries
MaxFrames == 2
\* bytes of a digest (32 for SHA-256); its hex form has twice as many characters
DigestBytes == 1
\* rows a query on the clients table returns
MaxClients == 2
\* messaging events in one webhook payload
MaxEvents == 2

(***************************************************************************)
(* Values.                                                                 *)
(***************************************************************************)
Null == "<null>"
Undefined == "<undefined>"
\* JavaScript values v for which !v is true, among those an id can take
FalsyIds == {Null, Undefined, ""}
Mids == {"m1", "m2", "m3", "m4", "m5"}
MidOf(i) == CHOOSE m \in Mids : m = "m" \o ToString(i)
MessageIds == {MidOf(i) : i \in 1..NumMids}
Ids == MessageIds \cup FalsyIds

\* !messageId
Falsy(id) == id \in FalsyIds

Tasks == 1..NumTasks
Dates == 1..NumDays
\* the active rows of the clients table, in stored order (read-only for the relay)
\* allowed_origins: the list chatbot_configs[0].allowed_origins of the row
ActiveClients ==
  <<[id |-> "t1", domain |-> "a.example", allowed_origins |-> {"https://a.example"}],
    [id |-> "t2", domain |-> "b.example", allowed_origins |-> {"https://b.example"}]>>
NoClient == [id |-> Undefined, domain |-> Undefined, allowed_origins |-> {}]
TenantIds == {ActiveClients[i].id : i \in 1..Len(ActiveClients)}
\* the client ids an exchange can be recorded under
ClientIds == {ActiveClients[i].id : i \in 1..Len(ActiveClients)} \cup {"onmore"}
Keys == ClientIds \X Dates
Channels == {"instagram", "webchat"}
\* UTC hours at which new Date() is sampled
Hours == {12, 23}
\* response-time samples of the web chat, in ms
Samples == {100, 200, 300}
\* texts of inbound messages; the second carries contact details
Texts == {"hi", "contact me at a@b.com or 0412345678"}

\* the configured signing secret
Secret == "secret"
\* const VERIFY_TOKEN, src/index.js:15 (its default)
VERIFY_TOKEN == "onmore_webhook_token_2024"
\* values of the query parameters of GET /webhook
Modes == {"subscribe", "unsubscribe", Undefined}
Tokens == {VERIFY_TOKEN, "onmore_webhook_token", "", Undefined}
Challenges == {"1158201444", "42", "", Undefined}
\* the characters a signature header is made of: hexadecimal digits, a
\* character that is none, and the prefix sha256= taken as one unit
HexDigits == {"a", "1", "A"}
Prefix == "sha256="
HeaderChars == HexDigits \cup {"z", Prefix}
\* the header x-hub-signature-256: absent, or a string of HeaderChars
NoSignature == [present |-> FALSE, chars |-> <<>>]
Strings(n) == UNION {[1..k -> HeaderChars] : k \in 0..n}
Signatures ==
  {NoSignature} \cup [present : {TRUE}, chars : Strings(2 * DigestBytes + 1)]

\* values of the Origin header
Origins == {Undefined, "https://b.example", "https://evil.example"}
\* the field messages of a chat request body: absent, a string, or an array of
\* messages with a role and a content
User(content) == [role |-> "user", content |-> content]
Assistant(content) == [role |-> "assistant", content |-> content]
NoMessages == [kind |-> "undefined", items |-> <<>>]
MessageFields ==
  {NoMessages, [kind |-> "string", items |-> <<>>]}
    \cup [kind : {"array"},
          items : { <<>>, <<User("hi")>>,
                    <<User("contact me at a@b.com or 0412345678")>>,
                    <<User("hi"), Assistant("hello"), User("hi")>> }]
\* bodies of POST /api/chat
ChatBodies == [messages : MessageFields, clientId : {Undefined, "t1"}, stream : BOOLEAN]

VARIABLES
  processedMessages,  \* the Set of src/index.js:155
  clears,             \* history: number of processedMessages.clear() executed
  sinceClear,         \* history: ids added since (and by) the last clear
  marks,              \* history: the non-falsy ids passed to markProcessed, in order
  lastCall,           \* history: the last call made on the guard alone
  tasks,              \* the requests in flight: position and locals of each
  analytics,          \* table analytics, keyed by (client_id, date)
  conversations,      \* table conversations, in created_at order
  today,              \* the date new Date() yields
  supabase,           \* whether the store client was initialised
  META_APP_SECRET,    \* process.env.META_APP_SECRET, src/index.js:18
  ops,                \* history: operations started so far
  admitted,           \* history: per mid, deliveries admitted since the last clear
  answered,           \* history: mids whose processing ended after its reply was
                      \* dispatched, since the last clear
  recorded,           \* history: per key, analytics upserts applied by saveConversation
  leadsRecorded,      \* history: per key, analytics upserts applied by saveLead
  script,             \* history: per key, progress through the samples 100, 200, 300
  faults,             \* history: store calls and tenant lookups that failed
  engagement          \* tables engagement_stats and hourly_traffic, keyed by
                      \* (client_id, date), and engagement_events

guardVars == <<processedMessages, clears, sinceClear, marks>>
flowVars == <<tasks, processedMessages, clears, sinceClear, marks, admitted, answered>>
envVars == <<supabase, META_APP_SECRET>>
storeVars == <<analytics, conversations, recorded, leadsRecorded, script, engagement>>
vars == <<processedMessages, clears, sinceClear, marks, lastCall, tasks, analytics,
          conversations, today, supabase, META_APP_SECRET, ops, admitted, answered, recorded,
          leadsRecorded, script, faults, engagement>>

(***************************************************************************)
(* Dedup guard, src/index.js:155-169.                                      *)
(***************************************************************************)
\* function isDuplicate(messageId)
isDuplicate(S, messageId) ==
  IF Falsy(messageId) THEN FALSE ELSE messageId \in S

AtCapacity_off_by_one(S) == Cardinality(S) > MAX_CACHE_SIZE

\* processedMessages.size >= MAX_CACHE_SIZE
AtCapacity(S) == Cardinality(S) >= MAX_CACHE_SIZE

markProcessed_noGuard(S, messageId) ==
  (IF AtCapacity(S) THEN {} ELSE S) \cup {messageId}

markProcessed_clearAfterAdd(S, messageId) ==
  IF Falsy(messageId) THEN S
  ELSE IF AtCapacity(S) THEN {} ELSE S \cup {messageId}

\* function markProcessed(messageId): the set after the call
markProcessed(S, messageId) ==
  IF Falsy(messageId) THEN S
  ELSE (IF AtCapacity(S) THEN {} ELSE S) \cup {messageId}

\* whether markProcessed(messageId) executes processedMessages.clear()
Clearing(messageId) == ~Falsy(messageId) /\ AtCapacity(processedMessages)

\* the state change of one markProcessed(messageId) call, with its history
DoMarkProcessed(messageId) ==
  /\ processedMessages' = markProcessed(processedMessages, messageId)
  /\ clears' = IF Clearing(messageId) THEN clears + 1 ELSE clears
  /\ sinceClear' = IF Falsy(messageId) THEN sinceClear
                   ELSE IF Clearing(messageId) THEN {messageId}
                   ELSE sinceClear \cup {messageId}
  /\ marks' = IF Falsy(messageId) THEN marks ELSE Append(marks, messageId)

(***************************************************************************)
(* Signature check, src/index.js:382-398.                                  *)
(***************************************************************************)
\* crypto.createHmac('sha256', secret).update(payload).digest('hex'): lowercase
\* hexadecimal digits, two per byte; one payload and one secret are modelled
hmacHex(secret, payload) ==
  [i \in 1..(2 * DigestBytes) |-> IF i % 2 = 1 THEN "a" ELSE "1"]

RECURSIVE replaceFirst(_, _)
\* signature.replace(pattern, ''): the first occurrence is removed
replaceFirst(str, pattern) ==
  IF str = <<>> THEN <<>>
  ELSE IF Head(str) = pattern THEN Tail(str)
  ELSE <<Head(str)>> \o replaceFirst(Tail(str), pattern)

\* the value of a hexadecimal digit: letter case does not matter
HexValue(c) == IF c = "A" THEN "a" ELSE c

RECURSIVE BufferFromHex(_)
\* Buffer.from(str, 'hex'): one byte per pair of hexadecimal digits; decoding
\* stops at the first pair that is not one, and a trailing single digit is dropped
BufferFromHex(str) ==
  IF Len(str) < 2 THEN <<>>
  ELSE IF str[1] \in HexDigits /\ str[2] \in HexDigits
  THEN <<<<HexValue(str[1]), HexValue(str[2])>>>> \o BufferFromHex(SubSeq(str, 3, Len(str)))
  ELSE <<>>

\* crypto.timingSafeEqual(a, b): throws a RangeError when the byte lengths differ
timingSafeEqual(a, b) ==
  IF Len(a) # Len(b) THEN "throw"
  ELSE IF a = b THEN "true" ELSE "false"

\* !signature
NoHeader(signature) == ~signature.present \/ signature.chars = <<>>

verifySignature_noLengthCheck(secret, payload, signature) ==
  IF Falsy(secret) \/ NoHeader(signature) THEN "false"
  ELSE LET expectedSignature == hmacHex(secret, payload)
           receivedSignature == replaceFirst(signature.chars, Prefix)
       IN timingSafeEqual(BufferFromHex(expectedSignature),
                          BufferFromHex(receivedSignature))

\* function verifySignature(payload, signature): "true", "false" or "throw"
verifySignature(secret, payload, signature) ==
  IF Falsy(secret) \/ NoHeader(signature) THEN "false"
  ELSE LET expectedSignature == hmacHex(secret, payload)
           receivedSignature == replaceFirst(signature.chars, Prefix)
       IN IF Len(expectedSignature) # Len(receivedSignature) THEN "false"
          ELSE timingSafeEqual(BufferFromHex(expectedSignature),
                               BufferFromHex(receivedSignature))

\* whether verifySignature reaches the comparison of src/index.js:394
Compares(secret, payload, signature) ==
  /\ ~Falsy(secret) /\ ~NoHeader(signature)
  /\ Len(hmacHex(secret, payload)) = Len(replaceFirst(signature.chars, Prefix))

(***************************************************************************)
(* Lead detection, src/index.js:139-150.  The patterns are applied to the  *)
(* texts of Texts only: the result for each is what the patterns yield.    *)
(***************************************************************************)
NoLead == [email |-> Null, phone |-> Null]

\* function extractLeadInfo(text); NoLead stands for the null result
extractLeadInfo(text) ==
  IF text = "contact me at a@b.com or 0412345678"
  THEN [email |-> "a@b.com", phone |-> "0412345678"]
  ELSE NoLead

(***************************************************************************)
(* Analytics aggregator, src/index.js:183-308.                             *)
(* A row of table analytics; a column a row was never given holds its      *)
(* default, which every read maps to 0 (existing?.x || 0).  The average    *)
(* number of messages is kept in tenths.                                   *)
(***************************************************************************)
NoHour == -1
NoRow == [exists |-> FALSE, total_conversations |-> 0,
          after_hours_conversations |-> 0, avg_response_time |-> 0,
          avg_messages_per_conversation |-> 0, peak_hour |-> NoHour,
          channel_webchat |-> 0, channel_instagram |-> 0, leads_captured |-> 0]

\* Math.round(n / d) for n >= 0 and d > 0: halves round up
Round(n, d) == (2 * n + d) \div (2 * d)

\* const aestHour = (hour + 11) % 24
aestHour(hour) == (hour + 11) % 24

\* const isAfterHours = aestHour < 9 || aestHour >= 17
isAfterHours(hour) == aestHour(hour) < 9 \/ aestHour(hour) >= 17

avgResponseTime_noRound(existing, responseTimeMs) ==
  IF responseTimeMs > 0
  THEN (existing.avg_response_time * existing.total_conversations + responseTimeMs)
          \div (existing.total_conversations + 1)
  ELSE existing.avg_response_time

\* avg_response_time of analyticsData, src/index.js:230-232
avgResponseTime(existing, responseTimeMs) ==
  IF responseTimeMs > 0
  THEN Round(existing.avg_response_time * existing.total_conversations + responseTimeMs,
             existing.total_conversations + 1)
  ELSE existing.avg_response_time

\* avg_messages_per_conversation of analyticsData, src/index.js:233, in tenths
avgMessages(existing, messageCount) ==
  Round(existing.avg_messages_per_conversation * existing.total_conversations
          + 10 * messageCount,
        existing.total_conversations + 1)

analyticsData_bothChannels(existing, channel, hour, responseTimeMs, messageCount) ==
  [total_conversations |-> existing.total_conversations + 1,
   after_hours_conversations |->
     existing.after_hours_conversations + (IF isAfterHours(hour) THEN 1 ELSE 0),
   avg_response_time |-> avgResponseTime(existing, responseTimeMs),
   avg_messages_per_conversation |-> avgMessages(existing, messageCount),
   peak_hour |-> aestHour(hour),
   channel_webchat |-> existing.channel_webchat + 1,
   channel_instagram |-> existing.channel_instagram + 1]

\* const analyticsData = {...}, src/index.js:225-237: the columns it sets
analyticsData(existing, channel, hour, responseTimeMs, messageCount) ==
  [total_conversations |-> existing.total_conversations + 1,
   after_hours_conversations |->
     existing.after_hours_conversations + (IF isAfterHours(hour) THEN 1 ELSE 0),
   avg_response_time |-> avgResponseTime(existing, responseTimeMs),
   avg_messages_per_conversation |-> avgMessages(existing, messageCount),
   peak_hour |-> aestHour(hour),
   channel_webchat |-> existing.channel_webchat + (IF channel = "webchat" THEN 1 ELSE 0),
   channel_instagram |->
     existing.channel_instagram + (IF channel = "instagram" THEN 1 ELSE 0)]

\* the columns saveLead upserts, src/index.js:293-297
leadColumns == [leads_captured |-> 1]

Upsert_replaceRow(row, data) ==
  [c \in DOMAIN NoRow |->
     IF c = "exists" THEN TRUE
     ELSE IF c \in DOMAIN data THEN data[c] ELSE NoRow[c]]

\* .upsert(data, { onConflict: 'client_id,date' }): insert the row, or on a
\* conflict update the columns given and keep the others
Upsert(row, data) ==
  [c \in DOMAIN NoRow |->
     IF c = "exists" THEN TRUE
     ELSE IF c \in DOMAIN data THEN data[c] ELSE row[c]]

\* the newest row of conversations with this client_id, 0 if there is none
\* (.eq('client_id', clientId).order('created_at', desc).limit(1).single())
LatestConversation(clientId) ==
  LET own == {i \in 1..Len(conversations) : conversations[i].client_id = clientId}
  IN IF own = {} THEN 0 ELSE CHOOSE i \in own : \A j \in own : j <= i

\* the body of a POST /api/engagement: eventType, device, and whether it
\* carries a chatOpenTime; the other fields are copied to the store as they are
NoData == [eventType |-> Undefined, device |-> Undefined, chatOpenTime |-> FALSE]
EngagementBodies ==
  {NoData}
    \cup [eventType : {"page_view"}, device : {"mobile", "desktop"}, chatOpenTime : {FALSE}]
    \cup [eventType : {"chat_opened", "first_message", "chat_closed"},
          device : {"desktop"}, chatOpenTime : {TRUE}]
    \cup [eventType : {"session_end"}, device : {"desktop"}, chatOpenTime : BOOLEAN]

\* a row of engagement_stats: the counters of src/index.js:801-816 (the sums
\* of durations are left out), all zero in the default row
NoStats ==
  [exists |-> FALSE, page_views |-> 0, device_mobile |-> 0, device_desktop |-> 0,
   chat_opens |-> 0, first_messages |-> 0, bounce_sessions |-> 0,
   engaged_sessions |-> 0]

\* a row of hourly_traffic for the hour of the request
NoTraffic == [exists |-> FALSE, visits |-> 0, chats |-> 0]

\* the counters after the event of the body is counted, src/index.js:818-846
countEvent(stats, data) ==
  CASE data.eventType = "page_view" ->
         IF data.device = "mobile"
         THEN [stats EXCEPT !.page_views = @ + 1, !.device_mobile = @ + 1]
         ELSE [stats EXCEPT !.page_views = @ + 1, !.device_desktop = @ + 1]
    [] data.eventType = "chat_opened" -> [stats EXCEPT !.chat_opens = @ + 1]
    [] data.eventType = "first_message" -> [stats EXCEPT !.first_messages = @ + 1]
    [] data.eventType = "session_end" ->
         IF data.chatOpenTime THEN [stats EXCEPT !.engaged_sessions = @ + 1]
         ELSE [stats EXCEPT !.bounce_sessions = @ + 1]
    [] OTHER -> stats

(***************************************************************************)
(* Requests in flight.                                                     *)
(***************************************************************************)
IdleTask ==
  [pc |-> "idle", path |-> "none", events |-> <<>>, status |-> 0,
   signature |-> NoSignature, parses |-> FALSE, verified |-> FALSE, mid |-> Null, retry |-> FALSE, text |-> "",
   clientId |-> Undefined, reply |-> "", channel |-> "", rt |-> 0, mc |-> 0,
   lead |-> FALSE, hour |-> 0, date |-> 0, existing |-> NoRow, conv |-> 0,
   nAdmitted |-> 0, completionCalls |-> 0, dispatchCalls |-> 0, markCalls |-> 0,
   saveCalls |-> 0, completion |-> "none", storeFailed |-> FALSE,
   messages |-> NoMessages, reqClientId |-> Undefined, stream |-> FALSE,
   origin |-> Undefined, chatReply |-> "", headersSent |-> FALSE, frames |-> <<>>,
   body |-> "", promptClient |-> Null, allowOrigin |-> Null, payload |-> <<>>,
   data |-> NoData, stats |-> NoStats, hourlyData |-> NoTraffic, responses |-> 0,
   inserted |-> FALSE]

Free(r) == tasks[r].pc \in {"idle", "done", "rejected"}

\* the slot a new request takes: the lowest one never used, else any answered one
Slot(r) ==
  /\ Free(r)
  /\ \A q \in Tasks : tasks[q].pc = "idle" => r <= q

\* the locals of a answered call are dead
Cleared(tk) ==
  [tk EXCEPT !.text = "", !.reply = "", !.completion = "none",
             !.channel = "", !.rt = 0, !.mc = 0,
             !.lead = FALSE, !.hour = 0, !.date = 0, !.existing = NoRow, !.conv = 0,
             !.inserted = FALSE]

ZeroCounts == [m \in MessageIds |-> 0]

Quiet ==
  /\ clears = 0
  /\ sinceClear = {}
  /\ marks = <<>>
  /\ lastCall = [op |-> "none", id |-> Null, before |-> {}, result |-> FALSE]
  /\ tasks = [r \in Tasks |-> IdleTask]
  /\ analytics = [k \in Keys |-> NoRow]
  /\ conversations = <<>>
  /\ today = 1
  /\ ops = 0
  /\ admitted = ZeroCounts
  /\ answered = {}
  /\ recorded = [k \in Keys |-> 0]
  /\ leadsRecorded = [k \in Keys |-> 0]
  /\ script = [k \in Keys |-> 0]
  /\ faults = 0
  /\ engagement = [stats |-> [k \in TenantIds \X Dates |-> NoStats], events |-> <<>>,
                   hourly |-> [k \in TenantIds \X Dates |-> NoTraffic]]

(***************************************************************************)
(* POST /webhook, src/index.js:574-656.                                    *)
(* An event: sender (has a sender id and a message), echo (is_echo), mid   *)
(* and text ("" when the message carries none).                            *)
(***************************************************************************)
TextEvents == [sender : {TRUE}, echo : {FALSE}, mid : {MidOf(1), MidOf(2), Undefined},
               text : Texts]
OtherEvents ==
  { [sender |-> FALSE, echo |-> FALSE, mid |-> MidOf(1), text |-> "hi"],
    [sender |-> TRUE, echo |-> TRUE, mid |-> MidOf(1), text |-> "hi"],
    [sender |-> TRUE, echo |-> FALSE, mid |-> MidOf(1), text |-> ""] }
Events == TextEvents \cup OtherEvents

Ignored_noEchoCheck(ev, S) ==
  \/ ~ev.sender
  \/ isDuplicate(S, ev.mid)
  \/ ev.text = ""

\* the early returns of processMessagingEvent, src/index.js:614-634
Ignored(ev, S) ==
  \/ ~ev.sender
  \/ ev.echo
  \/ isDuplicate(S, ev.mid)
  \/ ev.text = ""

RECURSIVE SkipIgnored(_, _)
\* the events left once the loop of src/index.js:593-600 has passed every event
\* that returns early; none of them suspends
SkipIgnored(evs, S) ==
  IF evs = <<>> THEN <<>>
  ELSE IF Ignored(Head(evs), S) THEN SkipIgnored(Tail(evs), S)
  ELSE evs

\* the loop goes on with the events tk.events: the first one admitted starts its
\* tenant lookup, src/index.js:639; with none left the handler answers 200.
\* S, A, F: the dedup set, admitted and answered as this step leaves them.
\* retry: a delivery of this mid was answered before, with no clear since.
ProcessEvents(r, tk, S, A, F) ==
  LET rest == SkipIgnored(tk.events, S) IN
  IF rest = <<>>
  THEN /\ tasks' = [tasks EXCEPT ![r] =
                      [tk EXCEPT !.pc = "done", !.status = 200, !.events = <<>>,
                                 !.payload = <<>>, !.mid = Null, !.retry = FALSE]]
       /\ admitted' = A
  ELSE LET ev == Head(rest) IN
       /\ tasks' = [tasks EXCEPT ![r] =
            [tk EXCEPT !.events = rest, !.mid = ev.mid, !.text = ev.text,
                       !.retry = ev.mid \in F, !.nAdmitted = @ + 1,
                       !.pc = IF supabase THEN "lookup" ELSE "completion",
                       !.clientId = IF supabase THEN Undefined ELSE "onmore",
                       !.promptClient = IF supabase THEN Null ELSE Undefined,
                       !.completionCalls = IF supabase THEN @ ELSE @ + 1]]
       /\ admitted' = IF Falsy(ev.mid) THEN A ELSE [A EXCEPT ![ev.mid] = @ + 1]

EventEnd_abortOnFailure(r, tk, marked) ==
  LET mid == tk.mid
      clearing == marked /\ Clearing(mid)
      S == IF marked THEN markProcessed(processedMessages, mid) ELSE processedMessages
      A == IF clearing THEN ZeroCounts ELSE admitted
      F == (IF clearing THEN {} ELSE answered)
             \cup (IF Falsy(mid) \/ tk.pc = "lookup" THEN {} ELSE {mid})
      t2 == [Cleared(tk) EXCEPT !.events = Tail(tk.events),
                                !.markCalls = IF marked THEN @ + 1 ELSE @]
  IN IF marked
     THEN /\ DoMarkProcessed(mid)
          /\ answered' = F
          /\ ProcessEvents(r, t2, S, A, F)
     ELSE /\ UNCHANGED <<guardVars, answered, admitted>>
          /\ tasks' = [tasks EXCEPT ![r] =
               [Cleared(tk) EXCEPT !.pc = "done", !.status = 500, !.events = <<>>,
                                   !.payload = <<>>, !.mid = Null, !.retry = FALSE]]

\* processMessagingEvent returns: through markProcessed (src/index.js:652) when
\* marked, through the catch (src/index.js:653-655) otherwise
EventEnd(r, tk, marked) ==
  LET mid == tk.mid
      clearing == marked /\ Clearing(mid)
      S == IF marked THEN markProcessed(processedMessages, mid) ELSE processedMessages
      A == IF clearing THEN ZeroCounts ELSE admitted
      F == (IF clearing THEN {} ELSE answered)
             \cup (IF Falsy(mid) \/ tk.pc = "lookup" THEN {} ELSE {mid})
      t2 == [Cleared(tk) EXCEPT !.events = Tail(tk.events),
                                !.markCalls = IF marked THEN @ + 1 ELSE @]
  IN /\ IF marked THEN DoMarkProcessed(mid) ELSE UNCHANGED guardVars
     /\ answered' = F
     /\ ProcessEvents(r, t2, S, A, F)

\* the replies getAIResponse and getAIResponseWithHistory fall back to,
\* src/index.js:431, 435, 467, 471
Apologies == {"Sorry, I could not process your message.", "Sorry, something went wrong."}

\* what a completion call yields as the reply: the text of the first choice,
\* or an apology when the payload has none ("malformed": an error payload or
\* any other document without choices) or when the call throws
replyOf(out) ==
  CASE out = "ok" -> "completion text"
    [] out = "malformed" -> "Sorry, I could not process your message."
    [] OTHER -> "Sorry, something went wrong."

\* the chat handler answers: res.status(200).json({ reply }) (src/index.js:755),
\* or res.end() on the event stream (src/index.js:740)
ChatRespond(r, tk) ==
  /\ tasks' = [tasks EXCEPT ![r] =
        [Cleared(tk) EXCEPT !.pc = "done", !.status = 200,
                            !.completion = tk.completion,
                            !.body = IF tk.stream THEN "" ELSE tk.chatReply,
                            !.chatReply = ""]]
  /\ UNCHANGED <<guardVars, admitted, answered>>

\* the catch of the chat handler, src/index.js:757-760: res.status(500).json(...)
\* sets headers, which throws once the stream has written its first frame; the
\* promise of the handler is then rejected with nothing to handle it
ChatCatch(r, tk) ==
  /\ tasks' = [tasks EXCEPT ![r] =
        IF tk.headersSent
        THEN [Cleared(tk) EXCEPT !.pc = "rejected", !.completion = tk.completion,
                                 !.chatReply = ""]
        ELSE [Cleared(tk) EXCEPT !.pc = "done", !.status = 500,
                                 !.completion = tk.completion,
                                 !.body = "Failed to get response", !.chatReply = ""]]
  /\ UNCHANGED <<guardVars, admitted, answered>>

\* a call made on its own returns
DirectEnd(r) ==
  /\ tasks' = [tasks EXCEPT ![r] = IdleTask]
  /\ UNCHANGED <<guardVars, admitted, answered>>

\* an exception reaches the caller of saveConversation or saveLead: the catch
\* of processMessagingEvent (src/index.js:653) or of the chat handler
Thrown(r, tk) ==
  CASE tk.path = "webhook" -> EventEnd(r, tk, FALSE)
    [] tk.path = "chat" -> ChatCatch(r, tk)
    [] OTHER -> DirectEnd(r)

\* saveLead has returned
AfterSaveLead(r, tk) ==
  CASE tk.path = "webhook" -> EventEnd(r, tk, TRUE)
    [] tk.path = "chat" -> ChatRespond(r, tk)
    [] OTHER -> DirectEnd(r)

\* saveLead is called: src/index.js:266-278
CallSaveLead(r, tk) ==
  IF ~supabase THEN AfterSaveLead(r, tk)
  ELSE /\ tasks' = [tasks EXCEPT ![r] = [tk EXCEPT !.pc = "leadSelect"]]
       /\ UNCHANGED <<guardVars, admitted, answered>>

\* saveConversation has returned: src/index.js:647-652, 734-740, 749-755
AfterSaveConversation(r, tk) ==
  IF tk.path \in {"webhook", "chat"} /\ tk.lead THEN CallSaveLead(r, tk)
  ELSE AfterSaveLead(r, tk)

\* saveConversation is called: src/index.js:183-205
CallSaveConversation(r, tk) ==
  LET t == [tk EXCEPT !.saveCalls = @ + 1] IN
  IF ~supabase \/ Falsy(t.clientId) THEN AfterSaveConversation(r, t)
  ELSE /\ tasks' = [tasks EXCEPT ![r] = [t EXCEPT !.pc = "insert"]]
       /\ UNCHANGED <<guardVars, admitted, answered>>

saveConversationCatch_rethrow(out) == IF out = "ok" THEN "returns" ELSE "throws"

\* catch (error) { ...; return null } of saveConversation, src/index.js:259-262:
\* whatever a store call did, the function returns
saveConversationCatch(out) == "returns"

\* catch (error) { ...; return null } of saveLead, src/index.js:304-307
saveLeadCatch(out) == "returns"

\* a store call of saveConversation failed (or not: out = "ok" changes nothing)
\* and the function ends there
SaveConversationEnds(r, tk, out) ==
  IF saveConversationCatch(out) = "throws" THEN Thrown(r, tk)
  ELSE AfterSaveConversation(r, tk)

\* a store call of saveLead failed and the function ends there
SaveLeadEnds(r, tk, out) ==
  IF saveLeadCatch(out) = "throws" THEN Thrown(r, tk)
  ELSE AfterSaveLead(r, tk)

\* the request has seen this outcome of a store call
Seen(tk, out) == IF out = "ok" THEN tk ELSE [tk EXCEPT !.storeFailed = TRUE]

\* the raw body of a POST and the headers sent with it: none, the one the
\* platform computes, and one of the right form for another body
RawBody == "body"
ValidSignature == [present |-> TRUE, chars |-> <<Prefix>> \o hmacHex(Secret, RawBody)]
WrongSignature == [present |-> TRUE,
                   chars |-> <<Prefix>> \o [i \in 1..(2 * DigestBytes) |-> "1"]]
Sigs == {NoSignature, ValidSignature, WrongSignature}

\* how a store call or tenant lookup ends: "ok", with an error result ("error":
\* data is null, nothing is thrown) or by throwing ("throw")
Outcomes == {"ok", "error", "throw"}

\* a call ends with this outcome: failures are counted, and bounded
Fault(out) ==
  IF out = "ok" THEN UNCHANGED faults
  ELSE /\ faults < MaxFaults
       /\ faults' = faults + 1

messagingEvents_reversed(payload) ==
  [i \in 1..Len(payload) |-> payload[Len(payload) + 1 - i]]

\* the events the loops of src/index.js:591-599 iterate over, in their order:
\* payload is the list of the events of the entries of the body
messagingEvents(payload) == payload

\* app.post('/webhook'), src/index.js:574-607, up to its first suspension
Receive(r, payload, signature, parses) ==
  /\ Slot(r)
  /\ ops < MaxDeliveries
  /\ ops' = ops + 1
  /\ LET checked == ~Falsy(META_APP_SECRET) /\ ~NoHeader(signature)
         valid == verifySignature(META_APP_SECRET, RawBody, signature)
         tk == [IdleTask EXCEPT !.path = "webhook", !.payload = payload,
                                !.events = messagingEvents(payload),
                                !.signature = signature, !.parses = parses,
                                !.verified = (checked /\ valid = "true")]
     IN IF checked /\ valid = "false"
        THEN /\ tasks' = [tasks EXCEPT ![r] =
                            [tk EXCEPT !.pc = "done", !.status = 401, !.events = <<>>,
                                       !.payload = <<>>]]
             /\ UNCHANGED admitted
        ELSE IF (checked /\ valid = "throw") \/ ~parses
        THEN /\ tasks' = [tasks EXCEPT ![r] =
                            [tk EXCEPT !.pc = "done", !.status = 500, !.events = <<>>,
                                       !.payload = <<>>]]
             /\ UNCHANGED admitted
        ELSE ProcessEvents(r, tk, processedMessages, admitted, answered)
  /\ UNCHANGED <<guardVars, answered, lastCall, storeVars, today, envVars, faults>>

\* const client = await getClientByInstagramId(recipientId) resumes
\* (src/index.js:48-64, 639-642), and getAIResponse issues the completion call
LookupDone(r, out) ==
  /\ tasks[r].pc = "lookup"
  /\ Fault(out)
  /\ LET client == IF out = "ok" /\ Len(ActiveClients) > 0
                   THEN ActiveClients[1] ELSE NoClient
     IN IF out = "throw"
        THEN EventEnd(r, tasks[r], FALSE)
        ELSE /\ tasks' = [tasks EXCEPT ![r] =
                  [@ EXCEPT !.pc = "completion",
                            !.clientId = IF Falsy(client.id) THEN "onmore" ELSE client.id,
                            !.promptClient = client.id,
                            !.completionCalls = @ + 1]]
             /\ UNCHANGED <<guardVars, admitted, answered>>
  /\ UNCHANGED <<lastCall, storeVars, today, envVars, ops>>

\* getAIResponse returns (src/index.js:403-437) and sendInstagramMessage
\* issues the dispatch call (src/index.js:643)
CompletionDone(r, out) ==
  /\ tasks[r].pc = "completion"
  /\ tasks' = [tasks EXCEPT ![r] =
        [@ EXCEPT !.pc = "dispatch", !.completion = out, !.reply = replyOf(out),
                  !.dispatchCalls = @ + 1]]
  /\ UNCHANGED <<guardVars, admitted, answered, lastCall, storeVars, today, envVars,
                 ops, faults>>

DispatchDone_markOnThrow(r, out) ==
  /\ tasks[r].pc = "dispatch"
  /\ IF out = "throw"
     THEN EventEnd(r, tasks[r], TRUE)
     ELSE CallSaveConversation(r,
            [tasks[r] EXCEPT !.channel = "instagram", !.rt = 0, !.mc = 1,
                             !.completion = "none",
                             !.lead = (extractLeadInfo(tasks[r].text) # NoLead)])
  /\ UNCHANGED <<lastCall, storeVars, today, envVars, ops, faults>>

\* sendInstagramMessage returns or throws (src/index.js:478-504); on return
\* saveConversation is called with the defaults responseTimeMs = 0, messageCount = 1
DispatchDone(r, out) ==
  /\ tasks[r].pc = "dispatch"
  /\ IF out = "throw"
     THEN EventEnd(r, tasks[r], FALSE)
     ELSE CallSaveConversation(r,
            [tasks[r] EXCEPT !.channel = "instagram", !.rt = 0, !.mc = 1,
                             !.completion = "none",
                             !.lead = (extractLeadInfo(tasks[r].text) # NoLead)])
  /\ UNCHANGED <<lastCall, storeVars, today, envVars, ops, faults>>

(***************************************************************************)
(* The steps of saveConversation, src/index.js:194-262.  Each store call   *)
(* ends "ok", with an error result ("error": data is null, nothing thrown) *)
(* or by throwing ("throw": the catch of src/index.js:259 returns null).   *)
(***************************************************************************)

\* the insert into conversations resumes, src/index.js:195-216
InsertDone(r, out, hour) ==
  /\ tasks[r].pc = "insert"
  /\ Fault(out)
  /\ IF out = "ok"
     THEN /\ conversations' = Append(conversations,
               [client_id |-> tasks[r].clientId, lead_captured |-> FALSE])
          /\ tasks' = [tasks EXCEPT ![r] =
               [@ EXCEPT !.pc = "read", !.hour = hour, !.date = today, !.reply = "",
                         !.inserted = TRUE]]
          /\ UNCHANGED <<guardVars, admitted, answered>>
     ELSE /\ UNCHANGED conversations
          /\ SaveConversationEnds(r, Seen(tasks[r], out), out)
  /\ UNCHANGED <<lastCall, analytics, recorded, leadsRecorded, script, engagement,
                 today, envVars, ops>>

\* the read of the existing analytics row resumes, src/index.js:218-237
ReadDone(r, out) ==
  /\ tasks[r].pc = "read"
  /\ Fault(out)
  /\ IF out = "throw"
     THEN SaveConversationEnds(r, Seen(tasks[r], out), out)
     ELSE /\ tasks' = [tasks EXCEPT ![r] =
               [Seen(@, out) EXCEPT
                  !.pc = "upsert",
                  !.existing = IF out = "ok"
                               THEN analytics[<<tasks[r].clientId, tasks[r].date>>]
                               ELSE NoRow]]
          /\ UNCHANGED <<guardVars, admitted, answered>>
  /\ UNCHANGED <<lastCall, storeVars, today, envVars, ops>>

\* the samples 100, 200, 300 recorded in this order on a fresh row
Script == <<100, 200, 300>>

\* the upsert of analyticsData resumes, src/index.js:239-247
UpsertDone(r, out) ==
  /\ tasks[r].pc = "upsert"
  /\ Fault(out)
  /\ LET tk == Seen(tasks[r], out)
         key == <<tk.clientId, tk.date>>
         data == analyticsData(tk.existing, tk.channel, tk.hour, tk.rt, tk.mc)
     IN /\ IF out = "ok"
           THEN /\ analytics' = [analytics EXCEPT ![key] = Upsert(@, data)]
                /\ recorded' = [recorded EXCEPT ![key] = @ + 1]
                /\ script' = [script EXCEPT ![key] =
                     IF /\ recorded[key] = @
                        /\ @ < Len(Script)
                        /\ tk.rt = Script[@ + 1]
                        /\ tk.existing = analytics[key]
                     THEN @ + 1 ELSE Len(Script) + 1]
           ELSE UNCHANGED <<analytics, recorded, script>>
        /\ IF out = "throw" THEN SaveConversationEnds(r, tk, out)
           ELSE IF tk.text # ""
           THEN /\ tasks' = [tasks EXCEPT ![r] = [tk EXCEPT !.pc = "question"]]
                /\ UNCHANGED <<guardVars, admitted, answered>>
           ELSE AfterSaveConversation(r, tk)
  /\ UNCHANGED <<lastCall, conversations, leadsRecorded, engagement, today, envVars, ops>>

\* supabase.rpc('increment_question_count') resumes, src/index.js:244-248; a
\* throw goes on to the upsert of popular_questions
QuestionDone(r, out) ==
  /\ tasks[r].pc = "question"
  /\ Fault(out)
  /\ IF out = "throw"
     THEN /\ tasks' = [tasks EXCEPT ![r] = [Seen(@, out) EXCEPT !.pc = "questionUpsert"]]
          /\ UNCHANGED <<guardVars, admitted, answered>>
     ELSE AfterSaveConversation(r, Seen(tasks[r], out))
  /\ UNCHANGED <<lastCall, storeVars, today, envVars, ops>>

\* the upsert of popular_questions resumes, src/index.js:249-258
QuestionUpsertDone(r, out) ==
  /\ tasks[r].pc = "questionUpsert"
  /\ Fault(out)
  /\ IF out = "throw" THEN SaveConversationEnds(r, Seen(tasks[r], out), out)
     ELSE AfterSaveConversation(r, Seen(tasks[r], out))
  /\ UNCHANGED <<lastCall, storeVars, today, envVars, ops>>

(***************************************************************************)
(* The steps of saveLead, src/index.js:271-307.                            *)
(***************************************************************************)
\* the select of the newest conversation resumes, src/index.js:272-288
LeadSelectDone(r, out) ==
  /\ tasks[r].pc = "leadSelect"
  /\ Fault(out)
  /\ LET conversation == IF out = "ok" THEN LatestConversation(tasks[r].clientId) ELSE 0
     IN IF out = "throw"
        THEN SaveLeadEnds(r, Seen(tasks[r], out), out)
        ELSE /\ tasks' = [tasks EXCEPT ![r] =
                  IF conversation # 0
                  THEN [Seen(@, out) EXCEPT !.pc = "leadUpdate", !.conv = conversation]
                  ELSE [Seen(@, out) EXCEPT !.pc = "leadUpsert", !.date = today]]
             /\ UNCHANGED <<guardVars, admitted, answered>>
  /\ UNCHANGED <<lastCall, storeVars, today, envVars, ops>>

\* the update of that conversation resumes, src/index.js:281-300
LeadUpdateDone(r, out) ==
  /\ tasks[r].pc = "leadUpdate"
  /\ Fault(out)
  /\ conversations' = IF out = "ok"
                      THEN [conversations EXCEPT ![tasks[r].conv].lead_captured = TRUE]
                      ELSE conversations
  /\ IF out = "throw"
     THEN SaveLeadEnds(r, Seen(tasks[r], out), out)
     ELSE /\ tasks' = [tasks EXCEPT ![r] =
               [Seen(@, out) EXCEPT !.pc = "leadUpsert", !.date = today, !.conv = 0]]
          /\ UNCHANGED <<guardVars, admitted, answered>>
  /\ UNCHANGED <<lastCall, analytics, recorded, leadsRecorded, script, engagement,
                 today, envVars, ops>>

\* the upsert of the lead counter resumes, src/index.js:291-303; the table
\* takes no row without a client_id
LeadUpsertDone(r, out) ==
  /\ tasks[r].pc = "leadUpsert"
  /\ Fault(out)
  /\ LET key == <<tasks[r].clientId, tasks[r].date>>
     IN IF out = "ok" /\ key \in Keys
        THEN /\ analytics' = [analytics EXCEPT ![key] = Upsert(@, leadColumns)]
             /\ leadsRecorded' = [leadsRecorded EXCEPT ![key] = @ + 1]
        ELSE UNCHANGED <<analytics, leadsRecorded>>
  /\ IF out = "throw" THEN SaveLeadEnds(r, Seen(tasks[r], out), out)
     ELSE AfterSaveLead(r, Seen(tasks[r], out))
  /\ UNCHANGED <<lastCall, conversations, recorded, script, engagement, today, envVars,
                 ops>>

(***************************************************************************)
(* POST /api/chat, src/index.js:509-538 and 659-761.                       *)
(***************************************************************************)
\* origin?.includes(domain)
includes(str, sub) ==
  \E i \in 0..(Len(str) - Len(sub)) : SubSeq(str, i + 1, i + Len(sub)) = sub

RECURSIVE firstByDomain(_, _)
\* the loop of src/index.js:39-43; NoClient when it finds nothing
firstByDomain(clients, origin) ==
  IF clients = <<>> THEN NoClient
  ELSE IF /\ ~Falsy(Head(clients).domain)
          /\ origin # Undefined
          /\ includes(origin, Head(clients).domain)
  THEN Head(clients)
  ELSE firstByDomain(Tail(clients), origin)

getClientByOrigin_noFallback(clients, origin) == firstByDomain(clients, origin)

\* function getClientByOrigin(origin), given the rows the query returned (none
\* when it returned an error); NoClient stands for null
getClientByOrigin(clients, origin) ==
  IF clients = <<>> THEN NoClient
  ELSE IF firstByDomain(clients, origin) # NoClient THEN firstByDomain(clients, origin)
  ELSE clients[1]

RECURSIVE userContents(_)
\* messages.filter(m => m.role === 'user').map(m => m.content)
userContents(items) ==
  IF items = <<>> THEN <<>>
  ELSE (IF Head(items).role = "user" THEN <<Head(items).content>> ELSE <<>>)
         \o userContents(Tail(items))

RECURSIVE join(_, _)
\* array.join(separator)
join(strs, sep) ==
  IF strs = <<>> THEN ""
  ELSE IF Len(strs) = 1 THEN strs[1]
  ELSE strs[1] \o sep \o join(Tail(strs), sep)

\* lastUserMessage?.content || ''
lastUserContent(items) ==
  IF userContents(items) = <<>> THEN ""
  ELSE userContents(items)[Len(userContents(items))]

\* the value of Access-Control-Allow-Origin for the row the lookup yielded,
\* src/index.js:524-531
allowOrigin(client, origin) ==
  IF origin \in client.allowed_origins THEN origin ELSE "*"

\* the handler has its tenant: src/index.js:671-697 and 742; the completion
\* call is issued with buildSystemPrompt(client), client being the row the
\* Origin resolved to (promptClient: its id, Undefined for null)
ChatResolved(r, tk, client) ==
  /\ tasks' = [tasks EXCEPT ![r] =
        [tk EXCEPT !.clientId = IF ~Falsy(tk.reqClientId) THEN tk.reqClientId
                                ELSE client.id,
                   !.promptClient = client.id,
                   !.mc = Len(userContents(tk.messages.items)),
                   !.pc = IF tk.stream THEN "streamFetch" ELSE "chatCompletion",
                   !.completionCalls = @ + 1]]
  /\ UNCHANGED <<guardVars, admitted, answered>>

\* the handler starts: src/index.js:660-670
ChatHandler(r, tk) ==
  IF tk.messages.kind # "array"
  THEN /\ tasks' = [tasks EXCEPT ![r] =
            [tk EXCEPT !.pc = "done", !.status = 400,
                       !.body = "Messages array required"]]
       /\ UNCHANGED <<guardVars, admitted, answered>>
  ELSE IF supabase
  THEN /\ tasks' = [tasks EXCEPT ![r] = [tk EXCEPT !.pc = "origin"]]
       /\ UNCHANGED <<guardVars, admitted, answered>>
  ELSE ChatResolved(r, tk, NoClient)

(***************************************************************************)
(* POST /api/engagement, src/index.js:766-911.                             *)
(***************************************************************************)
\* res.status(200).json({ ok: true })
EngagementRespond(r, tk) ==
  /\ tasks' = [tasks EXCEPT ![r] =
        [tk EXCEPT !.pc = "done", !.status = 200, !.body = "ok",
                   !.responses = @ + 1, !.stats = NoStats, !.hourlyData = NoTraffic,
                   !.date = 0]]
  /\ UNCHANGED <<guardVars, admitted, answered>>

EngagementCatch_rethrow(r, tk) ==
  /\ tasks' = [tasks EXCEPT ![r] =
        [tk EXCEPT !.pc = "rejected", !.stats = NoStats, !.hourlyData = NoTraffic,
                   !.date = 0]]
  /\ UNCHANGED <<guardVars, admitted, answered>>

\* the catch of the handler, src/index.js:907-910
EngagementCatch(r, tk) == EngagementRespond(r, tk)

\* the handler starts, src/index.js:767-786
EngagementHandler(r, tk) ==
  IF ~supabase THEN EngagementRespond(r, tk)
  ELSE /\ tasks' = [tasks EXCEPT ![r] = [tk EXCEPT !.pc = "engagementLookup"]]
       /\ UNCHANGED <<guardVars, admitted, answered>>

\* const client = await getClientByOrigin(origin) resumes, src/index.js:786-794
EngagementLookupDone(r, out) ==
  /\ tasks[r].pc = "engagementLookup"
  /\ Fault(out)
  /\ LET client == getClientByOrigin(IF out = "ok" THEN ActiveClients ELSE <<>>,
                                     tasks[r].origin)
     IN IF out = "throw" THEN EngagementCatch(r, tasks[r])
        ELSE IF Falsy(client.id) THEN EngagementRespond(r, tasks[r])
        ELSE /\ tasks' = [tasks EXCEPT ![r] =
                  [@ EXCEPT !.pc = "statsRead", !.clientId = client.id,
                            !.date = today]]
             /\ UNCHANGED <<guardVars, admitted, answered>>
  /\ UNCHANGED <<lastCall, storeVars, today, envVars, ops>>

\* a store call of the handler resumes, src/index.js:796-904: the read of
\* engagement_stats, its upsert, the insert into engagement_events, the read
\* of hourly_traffic and its update or insert.  builderHasCatch: whether the
\* query builder of the store library has the method catch called at 880; if
\* not, the call throws a TypeError before the insert is issued.
EngagementStoreDone(r, out, builderHasCatch) ==
  LET tk == tasks[r]
      key == <<tk.clientId, tk.date>>
      goes(pc) == /\ tasks' = [tasks EXCEPT ![r] = [tk EXCEPT !.pc = pc]]
                  /\ UNCHANGED <<guardVars, admitted, answered>>
  IN
  /\ tk.pc \in {"statsRead", "statsUpsert", "eventInsert", "trafficRead", "trafficWrite"}
  /\ Fault(out)
  /\ CASE tk.pc = "statsRead" ->
            /\ UNCHANGED engagement
            /\ IF out = "throw" THEN EngagementCatch(r, tk)
               ELSE /\ tasks' = [tasks EXCEPT ![r] =
                         [tk EXCEPT !.pc = "statsUpsert",
                                    !.stats = countEvent(IF out = "ok"
                                                         THEN engagement.stats[key]
                                                         ELSE NoStats, tk.data)]]
                    /\ UNCHANGED <<guardVars, admitted, answered>>
       [] tk.pc = "statsUpsert" ->
            /\ engagement' = IF out = "ok"
                             THEN [engagement EXCEPT
                                     !.stats[key] = [tk.stats EXCEPT !.exists = TRUE]]
                             ELSE engagement
            /\ IF out = "throw" THEN EngagementCatch(r, tk)
               ELSE IF tk.data.eventType \in {"session_end", "chat_closed"}
               THEN IF builderHasCatch THEN goes("eventInsert")
                    ELSE EngagementCatch(r, tk)
               ELSE goes("trafficRead")
       [] tk.pc = "eventInsert" ->
            /\ engagement' = IF out = "ok"
                             THEN [engagement EXCEPT !.events = Append(@,
                                     [client_id |-> tk.clientId,
                                      event_type |-> tk.data.eventType])]
                             ELSE engagement
            /\ goes("trafficRead")
       [] tk.pc = "trafficRead" ->
            /\ UNCHANGED engagement
            /\ IF out = "throw" THEN EngagementCatch(r, tk)
               ELSE /\ tasks' = [tasks EXCEPT ![r] =
                         [tk EXCEPT !.pc = "trafficWrite",
                                    !.hourlyData = IF out = "ok"
                                                   THEN engagement.hourly[key]
                                                   ELSE NoTraffic]]
                    /\ UNCHANGED <<guardVars, admitted, answered>>
       [] OTHER ->
            LET opened == IF tk.data.eventType = "chat_opened" THEN 1 ELSE 0 IN
            /\ engagement' = IF out = "ok"
                             THEN [engagement EXCEPT !.hourly[key] =
                                     [exists |-> TRUE,
                                      visits |-> tk.hourlyData.visits + 1,
                                      chats |-> tk.hourlyData.chats + opened]]
                             ELSE engagement
            /\ IF out = "throw" THEN EngagementCatch(r, tk)
               ELSE EngagementRespond(r, tk)
  /\ UNCHANGED <<lastCall, analytics, conversations, recorded, leadsRecorded, script,
                 today, envVars, ops>>

\* next() of corsMiddleware runs the handler of the route
RouteHandler(r, tk) ==
  IF tk.path = "chat" THEN ChatHandler(r, tk) ELSE EngagementHandler(r, tk)

\* a POST /api/engagement arrives: the body parser of src/index.js:545-552
\* answers 400 when the body is not JSON (parses = FALSE), else corsMiddleware
\* runs up to its lookup, src/index.js:509-523
EngagementReceive(r, data, origin, parses) ==
  /\ Slot(r)
  /\ ops < MaxDeliveries
  /\ ops' = ops + 1
  /\ LET tk == [IdleTask EXCEPT !.path = "engagement", !.data = data,
                                !.origin = origin, !.parses = parses]
     IN IF ~parses
        THEN /\ tasks' = [tasks EXCEPT ![r] =
                  [tk EXCEPT !.pc = "done", !.status = 400, !.body = "Bad Request",
                             !.responses = 1]]
             /\ UNCHANGED <<guardVars, admitted, answered>>
        ELSE IF supabase
        THEN /\ tasks' = [tasks EXCEPT ![r] = [tk EXCEPT !.pc = "cors"]]
             /\ UNCHANGED <<guardVars, admitted, answered>>
        ELSE EngagementHandler(r, [tk EXCEPT !.allowOrigin = allowOrigin(NoClient, origin)])
  /\ UNCHANGED <<lastCall, storeVars, today, envVars, faults>>

EngagementSteps(r) ==
  \/ \E out \in Outcomes : EngagementLookupDone(r, out)
  \/ \E out \in Outcomes, builderHasCatch \in BOOLEAN :
        EngagementStoreDone(r, out, builderHasCatch)

\* a POST /api/chat arrives: corsMiddleware up to its lookup, src/index.js:509-523
ChatReceive(r, body, origin) ==
  /\ Slot(r)
  /\ ops < MaxDeliveries
  /\ ops' = ops + 1
  /\ LET tk == [IdleTask EXCEPT !.path = "chat", !.messages = body.messages,
                                !.reqClientId = body.clientId,
                                !.stream = body.stream, !.origin = origin]
     IN IF supabase
        THEN /\ tasks' = [tasks EXCEPT ![r] = [tk EXCEPT !.pc = "cors"]]
             /\ UNCHANGED <<guardVars, admitted, answered>>
        ELSE ChatHandler(r, [tk EXCEPT !.allowOrigin = allowOrigin(NoClient, origin)])
  /\ UNCHANGED <<lastCall, storeVars, today, envVars, faults>>

\* the lookup of corsMiddleware resumes, src/index.js:523-537: the header is
\* set from the row it yields ("*" in the catch), and next() runs the handler
CorsDone(r, out) ==
  /\ tasks[r].pc = "cors"
  /\ Fault(out)
  /\ LET client == getClientByOrigin(IF out = "ok" THEN ActiveClients ELSE <<>>,
                                     tasks[r].origin)
     IN RouteHandler(r, [tasks[r] EXCEPT !.allowOrigin =
                          IF out = "throw" THEN "*"
                          ELSE allowOrigin(client, tasks[r].origin)])
  /\ UNCHANGED <<lastCall, storeVars, today, envVars, ops>>

\* an OPTIONS request on /api/chat or /api/engagement: corsMiddleware answers
\* it before any lookup, src/index.js:516-520, 764, 913
Preflight(r, origin) ==
  /\ Slot(r)
  /\ ops < MaxDeliveries
  /\ ops' = ops + 1
  /\ tasks' = [tasks EXCEPT ![r] =
        [IdleTask EXCEPT !.path = "preflight", !.pc = "done", !.status = 200,
                         !.origin = origin,
                         !.allowOrigin = IF origin = Undefined THEN "*" ELSE origin]]
  /\ UNCHANGED <<guardVars, admitted, answered, lastCall, storeVars, today, envVars,
                 faults>>

\* const client = await getClientByOrigin(origin) resumes, src/index.js:670
OriginDone(r, out) ==
  /\ tasks[r].pc = "origin"
  /\ Fault(out)
  /\ IF out = "throw" THEN ChatCatch(r, tasks[r])
     ELSE ChatResolved(r, tasks[r],
            getClientByOrigin(IF out = "ok" THEN ActiveClients ELSE <<>>,
                              tasks[r].origin))
  /\ UNCHANGED <<lastCall, storeVars, today, envVars, ops>>

\* the arguments of saveConversation on the chat path, src/index.js:729-735
\* and 743-750
ChatExchange(tk, reply, responseTimeMs) ==
  [tk EXCEPT !.reply = reply, !.chatReply = reply, !.channel = "webchat",
             !.rt = responseTimeMs,
             !.text = lastUserContent(tk.messages.items),
             !.lead = (extractLeadInfo(join(userContents(tk.messages.items), " "))
                         # NoLead)]

\* getAIResponseWithHistory returns, src/index.js:440-473 and 742-747
ChatCompletionDone(r, out, responseTimeMs) ==
  /\ tasks[r].pc = "chatCompletion"
  /\ CallSaveConversation(r,
       ChatExchange([tasks[r] EXCEPT !.completion = out], replyOf(out), responseTimeMs))
  /\ UNCHANGED <<lastCall, storeVars, today, envVars, ops, faults>>

\* the fetch of the streaming branch resumes, src/index.js:681-701: with a
\* stream of data lines ("ok"), with a body that holds none ("malformed": an
\* error payload), or by throwing
StreamFetchDone(r, out) ==
  /\ tasks[r].pc = "streamFetch"
  /\ IF out = "throw" THEN ChatCatch(r, [tasks[r] EXCEPT !.completion = out])
     ELSE /\ tasks' = [tasks EXCEPT ![r] =
               [@ EXCEPT !.pc = "streamRead", !.completion = out]]
          /\ UNCHANGED <<guardVars, admitted, answered>>
  /\ UNCHANGED <<lastCall, storeVars, today, envVars, ops, faults>>

\* await reader.read() resumes, src/index.js:704-732: with a chunk holding one
\* content line or the line [DONE], at the end of the stream, or by throwing
StreamReadDone(r, ev, responseTimeMs) ==
  /\ tasks[r].pc = "streamRead"
  /\ LET tk == tasks[r] IN
     CASE ev \in {"content", "[DONE]"} ->
            /\ tk.completion = "ok"
            /\ Len(tk.frames) < MaxFrames
            /\ \A i \in 1..Len(tk.frames) : tk.frames[i] # "[DONE]"
            /\ tasks' = [tasks EXCEPT ![r] =
                 [tk EXCEPT !.frames = Append(@, ev), !.headersSent = TRUE,
                            !.chatReply = IF ev = "content" THEN @ \o "text" ELSE @]]
            /\ UNCHANGED <<guardVars, admitted, answered>>
       [] ev = "end" -> CallSaveConversation(r, ChatExchange(tk, tk.chatReply, responseTimeMs))
       [] OTHER -> ChatCatch(r, [tk EXCEPT !.completion = "throw"])
  /\ UNCHANGED <<lastCall, storeVars, today, envVars, ops, faults>>

ChatSteps(r) ==
  \/ \E out \in Outcomes : CorsDone(r, out)
  \/ \E out \in Outcomes : OriginDone(r, out)
  \/ \E out \in {"ok", "malformed", "throw"}, ms \in Samples : ChatCompletionDone(r, out, ms)
  \/ \E out \in {"ok", "malformed", "throw"} : StreamFetchDone(r, out)
  \/ \E ev \in {"content", "[DONE]", "end", "throw"}, ms \in Samples :
        StreamReadDone(r, ev, ms)

(***************************************************************************)
(* The aggregator called on its own, one operation after another: with the *)
(* arguments of the webhook path (instagram, no sample, one message) or    *)
(* of the chat API (webchat, a sample, the number of user messages).       *)
(***************************************************************************)
Exchanges ==
  {[channel |-> "instagram", rt |-> 0, mc |-> 1]}
    \cup [channel : {"webchat"}, rt : Samples, mc : {2}]

SaveConversation(r, clientId, x, text) ==
  /\ \A q \in Tasks : Free(q)
  /\ ops < MaxOps
  /\ ops' = ops + 1
  /\ CallSaveConversation(r,
       [IdleTask EXCEPT !.path = "direct", !.clientId = clientId, !.text = text,
                        !.channel = x.channel, !.rt = x.rt, !.mc = x.mc])
  /\ UNCHANGED <<lastCall, storeVars, today, envVars, faults>>

SaveLead(r, clientId, channel) ==
  /\ \A q \in Tasks : Free(q)
  /\ ops < MaxOps
  /\ ops' = ops + 1
  /\ CallSaveLead(r,
       [IdleTask EXCEPT !.path = "direct", !.clientId = clientId, !.channel = channel])
  /\ UNCHANGED <<lastCall, storeVars, today, envVars, faults>>

\* the calendar day changes
Midnight ==
  /\ today < NumDays
  /\ today' = today + 1
  /\ UNCHANGED <<flowVars, lastCall, storeVars, envVars, ops, faults>>

ConversationSteps(r) ==
  \/ \E out \in Outcomes, hour \in Hours : InsertDone(r, out, hour)
  \/ \E out \in Outcomes : ReadDone(r, out)
  \/ \E out \in Outcomes : UpsertDone(r, out)
  \/ \E out \in Outcomes : QuestionDone(r, out)
  \/ \E out \in Outcomes : QuestionUpsertDone(r, out)

LeadSteps(r) ==
  \/ \E out \in Outcomes : LeadSelectDone(r, out)
  \/ \E out \in Outcomes : LeadUpdateDone(r, out)
  \/ \E out \in Outcomes : LeadUpsertDone(r, out)

StoreSteps(r) == ConversationSteps(r) \/ LeadSteps(r)

InitAnalytics ==
  /\ processedMessages = {}
  /\ supabase = TRUE
  /\ META_APP_SECRET = Secret
  /\ Quiet

NextAnalytics ==
  \/ \E c \in TenantIds \cup {Undefined}, x \in Exchanges, text \in {"hi", ""} :
        SaveConversation(1, c, x, text)
  \/ \E c \in TenantIds, ch \in Channels : SaveLead(1, c, ch)
  \/ StoreSteps(1)
  \/ Midnight

SpecAnalytics == InitAnalytics /\ [][NextAnalytics]_vars

(***************************************************************************)
(* The exchanges of one tenant recorded one after another within a day.    *)
(***************************************************************************)
NextExchanges ==
  \/ \E c \in {ActiveClients[1].id, Undefined}, x \in Exchanges, text \in {"hi", ""} :
        SaveConversation(1, c, x, text)
  \/ ConversationSteps(1)

SpecExchanges == InitAnalytics /\ [][NextExchanges]_vars

(***************************************************************************)
(* Exchanges and leads of the tenants recorded one after another over the  *)
(* days the clock runs through.                                            *)
(***************************************************************************)
NextTenants ==
  \/ \E c \in TenantIds :
        SaveConversation(1, c, [channel |-> "webchat", rt |-> 100, mc |-> 2], "")
  \/ \E c \in TenantIds : SaveLead(1, c, "webchat")
  \/ \E out \in Outcomes : InsertDone(1, out, 12)
  \/ \E out \in Outcomes : ReadDone(1, out)
  \/ \E out \in Outcomes : UpsertDone(1, out)
  \/ LeadSteps(1)
  \/ Midnight

SpecTenants == InitAnalytics /\ [][NextTenants]_vars

(***************************************************************************)
(* The webhook with NumTasks requests in flight, one event per POST, the   *)
(* dedup set being empty or full when the first arrives.                   *)
(***************************************************************************)
FullSet == {MidOf(i) : i \in 2..(MAX_CACHE_SIZE + 1)}

Init ==
  /\ processedMessages \in {{}, FullSet}
  /\ supabase = TRUE
  /\ META_APP_SECRET = Secret
  /\ Quiet

WebhookSteps(r) ==
  \/ \E out \in Outcomes : LookupDone(r, out)
  \/ \E out \in {"ok", "malformed", "throw"} : CompletionDone(r, out)
  \/ \E out \in {"ok", "throw"} : DispatchDone(r, out)

Next ==
  \/ \E r \in Tasks, ev \in Events, sig \in {ValidSignature, WrongSignature},
          parses \in BOOLEAN :
        Receive(r, <<ev>>, sig, parses)
  \/ \E r \in Tasks : WebhookSteps(r)
  \/ \E r \in Tasks : StoreSteps(r)

Spec == Init /\ [][Next]_vars

(***************************************************************************)
(* One webhook POST handled alone.                                         *)
(***************************************************************************)
NextOne ==
  \/ \E ev \in Events, sig \in Signatures, parses \in BOOLEAN :
        ops = 0 /\ Receive(1, <<ev>>, sig, parses)
  \/ WebhookSteps(1)
  \/ StoreSteps(1)

SpecOne == Init /\ [][NextOne]_vars

(***************************************************************************)
(* Webhook POSTs of one text message each, handled one after another.      *)
(***************************************************************************)
NextSequence ==
  \/ \E ev \in TextEvents :
        (\A q \in Tasks : Free(q)) /\ Receive(1, <<ev>>, ValidSignature, TRUE)
  \/ WebhookSteps(1)
  \/ StoreSteps(1)

SpecSequence == Init /\ [][NextSequence]_vars

(***************************************************************************)
(* One webhook POST whose payload holds up to MaxEvents messaging events.  *)
(***************************************************************************)
\* two text messages, an echo and a message without text
BatchEvents ==
  { [sender |-> TRUE, echo |-> FALSE, mid |-> MidOf(1), text |-> "hi"],
    [sender |-> TRUE, echo |-> FALSE, mid |-> MidOf(2),
     text |-> "contact me at a@b.com or 0412345678"],
    [sender |-> TRUE, echo |-> TRUE, mid |-> MidOf(1), text |-> "hi"],
    [sender |-> TRUE, echo |-> FALSE, mid |-> MidOf(1), text |-> ""] }

Payloads == UNION {[1..n -> BatchEvents] : n \in 0..MaxEvents}

NextBatch ==
  \/ \E payload \in Payloads, sig \in {ValidSignature, WrongSignature} :
        ops = 0 /\ Receive(1, payload, sig, TRUE)
  \/ WebhookSteps(1)
  \/ StoreSteps(1)

SpecBatch == Init /\ [][NextBatch]_vars

(***************************************************************************)
(* One request handled alone: a webhook POST, a POST /api/chat, a POST     *)
(* /api/engagement or a preflight.                                         *)
(***************************************************************************)
NextServe ==
  \/ \E ev \in Events, sig \in Sigs, parses \in BOOLEAN :
        ops = 0 /\ Receive(1, <<ev>>, sig, parses)
  \/ \E body \in ChatBodies, origin \in Origins :
        ops = 0 /\ ChatReceive(1, body, origin)
  \/ \E origin \in Origins : ops = 0 /\ Preflight(1, origin)
  \/ \E data \in EngagementBodies, origin \in Origins, parses \in BOOLEAN :
        ops = 0 /\ EngagementReceive(1, data, origin, parses)
  \/ WebhookSteps(1)
  \/ ChatSteps(1)
  \/ EngagementSteps(1)
  \/ StoreSteps(1)

SpecServe == Init /\ [][NextServe]_vars

(***************************************************************************)
(* The guard called on its own: any sequence of isDuplicate and            *)
(* markProcessed calls, starting from the empty set.                       *)
(***************************************************************************)
CallMarkProcessed(messageId) ==
  /\ Len(marks) < MaxMarks
  /\ DoMarkProcessed(messageId)
  /\ lastCall' = [op |-> "markProcessed", id |-> messageId,
                  before |-> processedMessages, result |-> FALSE]
  /\ UNCHANGED <<tasks, admitted, answered, storeVars, today, envVars, ops, faults>>

CallIsDuplicate(messageId) ==
  /\ lastCall' = [op |-> "isDuplicate", id |-> messageId,
                  before |-> processedMessages,
                  result |-> isDuplicate(processedMessages, messageId)]
  /\ UNCHANGED <<flowVars, storeVars, today, envVars, ops, faults>>

InitGuard ==
  /\ processedMessages = {}
  /\ supabase = TRUE
  /\ META_APP_SECRET = Secret
  /\ Quiet

NextGuard ==
  \/ \E id \in Ids : CallIsDuplicate(id)
  \/ \E id \in Ids : CallMarkProcessed(id)

SpecGuard == InitGuard /\ [][NextGuard]_vars

(***************************************************************************)
(* The synchronous entry points called on their own: GET /webhook          *)
(* (src/index.js:560-571) and verifySignature, with or without a           *)
(* configured secret; the tenant lookups given the rows their query        *)
(* returns; buildSystemPrompt.                                             *)
(***************************************************************************)
webhookVerified_anyToken(mode, token) == mode = "subscribe"

\* mode === 'subscribe' && token === VERIFY_TOKEN
webhookVerified(mode, token) == mode = "subscribe" /\ token = VERIFY_TOKEN

\* the body res.send(value) writes: nothing for undefined
Sent(value) == IF value = Undefined THEN "" ELSE value

\* app.get('/webhook'): the whole handler, it never suspends
GetWebhook(mode, token, challenge) ==
  /\ lastCall' = [op |-> "GET /webhook", mode |-> mode, token |-> token,
                  challenge |-> challenge,
                  status |-> IF webhookVerified(mode, token) THEN 200 ELSE 403,
                  body |-> IF webhookVerified(mode, token) THEN Sent(challenge)
                           ELSE "Forbidden"]
  /\ UNCHANGED <<flowVars, storeVars, today, envVars, ops, faults>>

CallVerifySignature(signature) ==
  /\ lastCall' = [op |-> "verifySignature", signature |-> signature,
                  result |-> verifySignature(META_APP_SECRET, RawBody, signature),
                  compared |-> Compares(META_APP_SECRET, RawBody, signature)]
  /\ UNCHANGED <<flowVars, storeVars, today, envVars, ops, faults>>

\* what a query on the clients table can return: up to MaxClients rows with
\* distinct ids, of which some have no domain
ClientRows ==
  LET Rows == [id : {"t1", "t2", "t3"}, domain : {"a.example", "b.example", Null},
               allowed_origins : {{}}]
  IN {rows \in UNION {[1..n -> Rows] : n \in 0..MaxClients} :
        \A i, j \in 1..Len(rows) : rows[i].id = rows[j].id => i = j}

\* Origin headers: absent, of a tenant's site, differing from one in case only,
\* of no tenant
CallOrigins == {Undefined, "https://a.example", "https://www.b.example/",
                "https://A.example", "https://evil.example"}

\* getClientByOrigin(origin), whose query returns rows
CallGetClientByOrigin(rows, origin) ==
  /\ lastCall' = [op |-> "getClientByOrigin", rows |-> rows, origin |-> origin,
                  store |-> supabase,
                  result |-> IF supabase THEN getClientByOrigin(rows, origin)
                             ELSE NoClient]
  /\ UNCHANGED <<flowVars, storeVars, today, envVars, ops, faults>>

\* the platform recipient ids a tenant is registered with (no column of the
\* rows is read for them by the program)
platformRecipientIds(client) ==
  CASE client.id = "t1" -> {"ig-1"}
    [] client.id = "t2" -> {"ig-2"}
    [] OTHER -> {}

\* recipient ids of inbound events: of the tenants t1 and t2, and of no tenant
RecipientIds == {"ig-1", "ig-2", "ig-9"}

\* function getClientByInstagramId(recipientId), src/index.js:48-64, given the
\* rows the query returned
getClientByInstagramId(clients, recipientId) ==
  IF ~supabase \/ clients = <<>> THEN NoClient ELSE clients[1]

CallGetClientByInstagramId(rows, recipientId) ==
  /\ lastCall' = [op |-> "getClientByInstagramId", rows |-> rows,
                  recipientId |-> recipientId, store |-> supabase,
                  result |-> getClientByInstagramId(rows, recipientId)]
  /\ UNCHANGED <<flowVars, storeVars, today, envVars, ops, faults>>

\* the sub-fields of business_info, in the order they are rendered
BizFields == <<"name", "domain", "email", "location", "description", "guarantee">>

\* chatbot configs: none (NoConfig), or one with each field absent, empty or
\* filled; business_info is absent or an object with some of its sub-fields
NoConfig ==
  [present |-> FALSE, identity |-> Undefined, role |-> NoMessages, rules |-> NoMessages,
   business_info |-> [present |-> FALSE, fields |-> {}],
   service_plans |-> NoMessages, faq |-> NoMessages, business_hours |-> Undefined]
Configs ==
  LET Arrays == {NoMessages, [kind |-> "array", items |-> <<>>],
                 [kind |-> "array", items |-> <<"item">>]}
      Bizs == {[present |-> FALSE, fields |-> {}]}
                \cup [present : {TRUE},
                      fields : SUBSET {BizFields[i] : i \in 1..Len(BizFields)}]
  IN {NoConfig}
       \cup [present : {TRUE}, identity : {Undefined, "You are Max"},
             role : Arrays, rules : Arrays, business_info : Bizs,
             service_plans : Arrays, faq : Arrays,
             business_hours : {Undefined, "", "9am-5pm"}]

\* function buildSystemPrompt(client), src/index.js:66-134, as the list parts
\* it joins: each part is a heading, a line under the heading of its section,
\* or a heading that carries its value on the same line
buildSystemPrompt(config) ==
  LET heading(sec) == [kind |-> "heading", section |-> sec]
      line(sec) == [kind |-> "line", section |-> sec]
      filled(field) == field.kind = "array" /\ Len(field.items) > 0
      biz == config.business_info
  IN IF ~config.present THEN <<line("generic")>>
     ELSE (IF ~Falsy(config.identity) THEN <<line("identity")>> ELSE <<>>)
       \o (IF filled(config.role)
           THEN <<heading("Your Role"), line("Your Role")>> ELSE <<>>)
       \o (IF filled(config.rules)
           THEN <<heading("Guidelines"), line("Guidelines")>> ELSE <<>>)
       \o (IF biz.present
           THEN <<heading("Business Information")>>
                  \o [i \in 1..Len(SelectSeq(BizFields, LAMBDA f : f \in biz.fields))
                        |-> line("Business Information")]
           ELSE <<>>)
       \o (IF filled(config.service_plans)
           THEN <<heading("Services & Pricing")>>
                  \o [i \in 1..Len(config.service_plans.items)
                        |-> line("Services & Pricing")]
           ELSE <<>>)
       \o (IF filled(config.faq)
           THEN <<heading("Common Questions")>>
                  \o [i \in 1..(2 * Len(config.faq.items)) |-> line("Common Questions")]
           ELSE <<>>)
       \o (IF ~Falsy(config.business_hours)
           THEN <<[kind |-> "heading with value", section |-> "Business Hours"]>>
           ELSE <<>>)

CallBuildSystemPrompt(config) ==
  /\ lastCall' = [op |-> "buildSystemPrompt", config |-> config,
                  result |-> buildSystemPrompt(config)]
  /\ UNCHANGED <<flowVars, storeVars, today, envVars, ops, faults>>

\* ---- The cron routes (src/index.js:918-927) ----
\* A response is its status and the fields of its JSON body that report a
\* failure; ErrorText stands for the message or the object of the error the
\* handler caught or was handed.
Methods == {"GET", "POST", "PUT"}

ErrorText == "<text of the caught error>"

\* handler of api/cron/backup-data.js: out is how backupAllData() settled
backupHandler(method, out) ==
  IF method \notin {"GET", "POST"}
  THEN [status |-> 405, error |-> "Method not allowed", details |-> Undefined]
  ELSE IF out = "throw"
  THEN [status |-> 500, error |-> "Backup failed", details |-> ErrorText]
  ELSE [status |-> 200, error |-> Undefined, details |-> Undefined]

\* handler of api/cron/weekly-report.js: stats is how getWeeklyStats settled
\* (a value, null, or a throw), sent how resend.emails.send and the report
\* builders before it settled (data, an error object, or a throw)
weeklyReportHandler(method, stats, sent) ==
  IF method \notin {"GET", "POST"}
  THEN [status |-> 405, error |-> "Method not allowed", details |-> Undefined]
  ELSE IF stats = "throw"
  THEN [status |-> 500, error |-> "Internal server error", details |-> Undefined]
  ELSE IF stats = "null"
  THEN [status |-> 500, error |-> "Failed to fetch stats", details |-> Undefined]
  ELSE IF sent = "throw"
  THEN [status |-> 500, error |-> "Internal server error", details |-> Undefined]
  ELSE IF sent = "error"
  THEN [status |-> 500, error |-> "Failed to send email", details |-> ErrorText]
  ELSE [status |-> 200, error |-> Undefined, details |-> Undefined]

CallBackupHandler(method, out) ==
  /\ lastCall' = [op |-> "backup-data", method |-> method, out |-> out,
                  result |-> backupHandler(method, out)]
  /\ UNCHANGED <<flowVars, storeVars, today, envVars, ops, faults>>

CallWeeklyReportHandler(method, stats, sent) ==
  /\ lastCall' = [op |-> "weekly-report", method |-> method, stats |-> stats,
                  sent |-> sent, result |-> weeklyReportHandler(method, stats, sent)]
  /\ UNCHANGED <<flowVars, storeVars, today, envVars, ops, faults>>

\* ---- The read loop of the streaming branch of POST /api/chat ----
\* The upstream body is a sequence of units: "data: " is the field prefix,
\* "{a" stands for the JSON text up to and including the content string "a"
\* ({"choices":[{"delta":{"content":"a"), "}" for the rest of the object
\* (}}]}), "[DONE]" for the terminator and "\n" for a line feed. A chunk is a
\* non-empty run of units: a chunk boundary may fall between any two units.
Fragments == {"a", "b"}

jsonHead(c) == "{" \o c

\* the event stream the completion gateway produces for a sequence of content
\* fragments: one data line per fragment, then the terminator, a blank line
\* after each
RECURSIVE upstream(_)
upstream(fs) ==
  IF fs = <<>> THEN <<"data: ", "[DONE]", "\n", "\n">>
  ELSE <<"data: ", jsonHead(Head(fs)), "}", "\n", "\n">> \o upstream(Tail(fs))

\* the chunks reader.read() yields when the body is cut after the units at
\* the positions of cuts
RECURSIVE chunksOf(_, _, _)
chunksOf(s, cuts, from) ==
  IF cuts = {} THEN <<SubSeq(s, from, Len(s))>>
  ELSE LET c == CHOOSE x \in cuts : \A y \in cuts : x <= y
       IN <<SubSeq(s, from, c)>> \o chunksOf(s, cuts \ {c}, c + 1)

\* chunk.split('\n') (src/index.js:708)
RECURSIVE split(_)
split(chunk) ==
  LET feeds == {i \in 1..Len(chunk) : chunk[i] = "\n"}
  IN IF feeds = {} THEN <<chunk>>
     ELSE LET i == CHOOSE x \in feeds : \A y \in feeds : x <= y
          IN <<SubSeq(chunk, 1, i - 1)>> \o split(SubSeq(chunk, i + 1, Len(chunk)))

\* JSON.parse(data) and parsed.choices?.[0]?.delta?.content (src/index.js:718-719):
\* the parse throws unless data is a whole object
JSONparse(data) ==
  IF Len(data) = 2 /\ data[2] = "}" /\ \E c \in Fragments : data[1] = jsonHead(c)
  THEN [ok |-> TRUE, content |-> CHOOSE c \in Fragments : data[1] = jsonHead(c)]
  ELSE [ok |-> FALSE, content |-> ""]

\* the body of the for loop over the lines of a chunk (src/index.js:710-726)
forLine(acc, line) ==
  IF line # <<>> /\ Head(line) = "data: "
  THEN LET data == Tail(line) IN
       IF data = <<"[DONE]">>
       THEN [acc EXCEPT !.writes = Append(@, "[DONE]")]
       ELSE LET parsed == JSONparse(data) IN
            IF parsed.ok
            THEN [fullReply |-> acc.fullReply \o parsed.content,
                  writes |-> Append(acc.writes, parsed.content)]
            ELSE acc
  ELSE acc

RECURSIVE forLines(_, _)
forLines(acc, lines) ==
  IF lines = <<>> THEN acc ELSE forLines(forLine(acc, Head(lines)), Tail(lines))

\* the while loop over the chunks until the reader is done
\* (src/index.js:699-727): each chunk is decoded, split and filtered by itself
RECURSIVE readLoop(_, _)
readLoop(acc, chunks) ==
  IF chunks = <<>> THEN acc
  ELSE LET lines == SelectSeq(split(Head(chunks)), LAMBDA line : line # <<>>)
       IN readLoop(forLines(acc, lines), Tail(chunks))

\* the fragment sequences and the cuts of the bodies read
FragmentSeqs == UNION {[1..n -> Fragments] : n \in 1..MaxFrames}

Cuts(s) == {cuts \in SUBSET (1..(Len(s) - 1)) : Cardinality(cuts) <= MaxFrames}

CallReadLoop(fs, cuts) ==
  /\ lastCall' = [op |-> "readLoop", fragments |-> fs,
                  chunks |-> chunksOf(upstream(fs), cuts, 1),
                  result |-> readLoop([fullReply |-> "", writes |-> <<>>],
                                      chunksOf(upstream(fs), cuts, 1))]
  /\ UNCHANGED <<flowVars, storeVars, today, envVars, ops, faults>>

InitSync ==
  /\ processedMessages = {}
  /\ supabase \in BOOLEAN
  /\ META_APP_SECRET \in {Secret, Undefined}
  /\ Quiet

\* one call in each behaviour: neither entry point keeps state
NextSync ==
  \/ /\ lastCall.op = "none"
     /\ \E mode \in Modes, token \in Tokens, challenge \in Challenges :
          GetWebhook(mode, token, challenge)
  \/ /\ lastCall.op = "none"
     /\ \E signature \in Signatures : CallVerifySignature(signature)
  \/ /\ lastCall.op = "none"
     /\ \E rows \in ClientRows, origin \in CallOrigins :
          CallGetClientByOrigin(rows, origin)
  \/ /\ lastCall.op = "none"
     /\ \E rows \in ClientRows, recipientId \in RecipientIds :
          CallGetClientByInstagramId(rows, recipientId)
  \/ /\ lastCall.op = "none"
     /\ \E config \in Configs : CallBuildSystemPrompt(config)
  \/ /\ lastCall.op = "none"
     /\ \E fs \in FragmentSeqs : \E cuts \in Cuts(upstream(fs)) : CallReadLoop(fs, cuts)
  \/ /\ lastCall.op = "none"
     /\ \E method \in Methods, out \in {"ok", "throw"} : CallBackupHandler(method, out)
  \/ /\ lastCall.op = "none"
     /\ \E method \in Methods, stats \in {"ok", "null", "throw"},
           sent \in {"ok", "error", "throw"} :
          CallWeeklyReportHandler(method, stats, sent)

SpecSync == InitSync /\ [][NextSync]_vars

(***************************************************************************)
(* Claims about the webhook pipeline.                                      *)
(***************************************************************************)
\* C1: for every message id X, among the deliveries of X that interleave (none
\* of them has ended yet) with no capacity clear in between, at most one is
\* admitted past the duplicate check.
C1_AtMostOneAdmitted ==
  \A X \in MessageIds : X \notin answered => admitted[X] <= 1

\* C2: a delivery of a mid that starts after an earlier delivery of the same
\* mid was answered and has ended issues no completion call and no dispatch
\* call, whatever the outcome of the earlier delivery's steps.
C2_RetryIssuesNoCalls ==
  \A r \in Tasks :
    tasks[r].retry => tasks[r].completionCalls = 0 /\ tasks[r].dispatchCalls = 0

\* C3: a webhook POST with a valid signature and one non-echo text message with
\* an unseen mid, handled alone with no store failure, ends with exactly one
\* completion call, one dispatch call, one markProcessed call and the analytics
\* record of its tenant and day at one conversation more than before (none).
C3_OneOfEach ==
  \A r \in Tasks :
    (/\ tasks[r].pc = "done" /\ tasks[r].status = 200
     /\ tasks[r].verified /\ tasks[r].nAdmitted = 1 /\ faults = 0
     /\ \E X \in MessageIds : admitted[X] = 1)
    => /\ tasks[r].completionCalls = 1
       /\ tasks[r].dispatchCalls = 1
       /\ tasks[r].markCalls = 1
       /\ analytics[<<tasks[r].clientId, today>>].total_conversations = 1

\* C8: with no store failure, once every saveConversation on a key has ended,
\* the stored total_conversations equals its initial value, 0, plus the
\* number of upserts those operations applied, however they interleaved.
C8_NoLostUpdate ==
  ((\A r \in Tasks : Free(r)) /\ faults = 0)
    => \A k \in Keys : analytics[k].total_conversations = recorded[k]

\* C11: in the webhook path, when the dispatch call of an exchange whose
\* completion text was obtained ends, by returning (with or without an error
\* payload) or by throwing, saveConversation is called for that exchange.
C11_RecordedWhateverDispatch ==
  [][\A r \in Tasks :
       (/\ tasks[r].path = "webhook" /\ tasks[r].pc = "dispatch"
        /\ tasks[r].completion = "ok"
        /\ tasks'[r] # tasks[r])
       => tasks'[r].saveCalls = tasks[r].saveCalls + 1]_vars

\* the positions of a request inside saveConversation or saveLead
StorePcs == {"insert", "read", "upsert", "question", "questionUpsert",
             "leadSelect", "leadUpdate", "leadUpsert"}

\* C12: a failure of any storage step of saveConversation or saveLead (an
\* error result or an exception) never changes the outcome the user sees: the
\* request ends, the webhook answers 200, and the chat API answers 200 with
\* the reply the completion call yielded.
C12_StoreFailureSwallowed ==
  \A r \in Tasks :
    tasks[r].storeFailed =>
      /\ tasks[r].pc # "rejected"
      /\ Free(r) =>
           /\ tasks[r].status = 200
           /\ (tasks[r].path = "chat" /\ ~tasks[r].stream)
                 => tasks[r].body = replyOf(tasks[r].completion)

\* a chat request one of whose storage steps failed was answered with the
\* completion text
C12_Witness ==
  \E r \in Tasks :
    /\ tasks[r].path = "chat" /\ tasks[r].storeFailed /\ faults > 0
    /\ tasks[r].pc = "done" /\ tasks[r].status = 200
    /\ tasks[r].saveCalls = 1
    /\ tasks[r].body = "completion text"

\* C13: on every channel the reply has been delivered before saveConversation
\* or saveLead is started: while a request is inside one of them, its chat
\* response has been sent (the JSON response, or the end of the event stream),
\* and on the webhook path its dispatch call has returned.
C13_ReplyBeforeRecording ==
  \A r \in Tasks :
    tasks[r].pc \in StorePcs =>
      /\ tasks[r].path = "chat" => tasks[r].status # 0
      /\ tasks[r].path = "webhook" => tasks[r].dispatchCalls >= 1

\* C14: on every path a failed completion call (an exception, or a payload
\* without a completion) ends in an apology delivered as the reply: the webhook
\* dispatches one, the chat API answers 200 with one as the reply or as a frame
\* of the event stream.
C14_FailedCompletionApologises ==
  \A r \in Tasks :
    tasks[r].completion \in {"malformed", "throw"} =>
      /\ (tasks[r].path = "webhook" /\ tasks[r].pc = "dispatch")
            => tasks[r].reply \in Apologies
      /\ (tasks[r].path = "chat" /\ Free(r)) =>
            /\ tasks[r].pc = "done" /\ tasks[r].status = 200
            /\ IF tasks[r].stream
               THEN \E i \in 1..Len(tasks[r].frames) : tasks[r].frames[i] \in Apologies
               ELSE tasks[r].body \in Apologies

\* C15: no request ends in an unhandled rejection: whatever external call
\* fails, and wherever, the handler's catch completes without throwing.
C15_NoUnhandledRejection ==
  \A r \in Tasks : tasks[r].pc # "rejected"

\* C20: a POST /api/chat whose messages field is missing, not an array or the
\* empty array is answered with a client error, and neither a completion call
\* nor saveConversation is made for it.
C20_EmptyMessagesRejected ==
  \A r \in Tasks :
    (/\ tasks[r].path = "chat"
     /\ (tasks[r].messages.kind # "array" \/ tasks[r].messages.items = <<>>))
    => /\ tasks[r].completionCalls = 0
       /\ tasks[r].saveCalls = 0
       /\ tasks[r].pc = "done" => tasks[r].status = 400

\* C21: in POST /api/chat with no store failure, once the completion call is
\* issued the tenant whose configuration built the system prompt and the tenant
\* the exchange is recorded under are the same one, and it is the tenant named
\* by clientId whenever the body supplies clientId.
C21_ClientIdTakesPrecedence ==
  \A r \in Tasks :
    (tasks[r].path = "chat" /\ tasks[r].promptClient # Null /\ faults = 0)
    => /\ tasks[r].promptClient = tasks[r].clientId
       /\ ~Falsy(tasks[r].reqClientId) => tasks[r].clientId = tasks[r].reqClientId

\* C22: getClientByOrigin returns the first row, in stored order, whose domain
\* is contained in the origin header; with no such row (an absent header
\* included) it returns the first row; it returns null exactly when the query
\* returned no row or there is no store.
C22_FirstMatchElseFirst ==
  lastCall.op = "getClientByOrigin" =>
    LET rows == lastCall.rows
        matching == {i \in 1..Len(rows) :
                       /\ rows[i].domain # Null
                       /\ lastCall.origin # Undefined
                       /\ includes(lastCall.origin, rows[i].domain)}
    IN IF ~lastCall.store \/ rows = <<>> THEN lastCall.result = NoClient
       ELSE IF matching = {} THEN lastCall.result = rows[1]
       ELSE \E i \in matching :
              /\ lastCall.result = rows[i]
              /\ \A j \in matching : i <= j

\* a call for which the first row does not match and the second does, and
\* one that falls back to the first row
C22_Witness ==
  /\ lastCall.op = "getClientByOrigin"
  /\ lastCall.store
  /\ Len(lastCall.rows) = 2
  /\ lastCall.rows[1].domain = "a.example"
  /\ lastCall.origin = "https://www.b.example/"
  /\ lastCall.result = lastCall.rows[2]

C22_WitnessFallback ==
  /\ lastCall.op = "getClientByOrigin"
  /\ lastCall.store
  /\ Len(lastCall.rows) = 2
  /\ lastCall.origin \in {Undefined, "https://A.example"}
  /\ lastCall.rows[2].domain = "a.example"
  /\ lastCall.result = lastCall.rows[1]

\* C23: getClientByInstagramId(recipientId) returns a row whose platform
\* recipient ids contain recipientId when the query returned one, and the
\* first row only when it returned none.
C23_TenantOfRecipient ==
  (lastCall.op = "getClientByInstagramId" /\ lastCall.store /\ lastCall.rows # <<>>)
  => LET rows == lastCall.rows
         owners == {i \in 1..Len(rows) :
                      lastCall.recipientId \in platformRecipientIds(rows[i])}
     IN IF owners = {} THEN lastCall.result = rows[1]
        ELSE \E i \in owners : lastCall.result = rows[i]

\* C29: in the parts buildSystemPrompt joins, every section heading is
\* followed by at least one line of its section, or carries its value itself;
\* a config with no business_hours yields no Business Hours heading.
C29_NoEmptyHeading ==
  lastCall.op = "buildSystemPrompt" =>
    LET parts == lastCall.result IN
    /\ \A i \in 1..Len(parts) :
         parts[i].kind = "heading"
         => /\ i < Len(parts)
            /\ parts[i + 1] = [kind |-> "line", section |-> parts[i].section]
    /\ Falsy(lastCall.config.business_hours)
         => \A i \in 1..Len(parts) : parts[i].section # "Business Hours"

\* C26 as stated: every POST /api/engagement, whatever its body, is answered
\* exactly once, with status 200 and body {ok: true}.
C26_AlwaysOkEveryBody ==
  \A r \in Tasks :
    tasks[r].path = "engagement" =>
      /\ ~Free(r) => tasks[r].responses = 0
      /\ Free(r) => /\ tasks[r].responses = 1
                    /\ tasks[r].status = 200
                    /\ tasks[r].body = "ok"

\* C26, amended: every POST /api/engagement whose body the JSON parser
\* accepts is answered exactly once, with status 200 and body {ok: true},
\* whatever the tenant lookup and each store read or write yield (a result,
\* an error result or an exception); no response is sent before the handler
\* ends.
C26_AlwaysOk ==
  \A r \in Tasks :
    (tasks[r].path = "engagement" /\ tasks[r].parses) =>
      /\ ~Free(r) => tasks[r].responses = 0
      /\ Free(r) => /\ tasks[r].responses = 1
                    /\ tasks[r].status = 200
                    /\ tasks[r].body = "ok"

\* a session_end request answered after a store call of its handler threw
C26_Witness ==
  /\ tasks[1].path = "engagement"
  /\ tasks[1].data.eventType = "session_end"
  /\ tasks[1].pc = "done"
  /\ tasks[1].status = 200
  /\ faults = 1
  /\ engagement.stats[<<"t2", today>>].exists

\* a webhook request is between the admission of an event and its end
InProgress(r) == tasks[r].path = "webhook" /\ ~Free(r)

\* C27: while a webhook request is handled, the events not yet finished are a
\* suffix of the payload with the event being processed at its head, no call
\* has been issued for a later event, and at most one completion call is
\* awaiting its dispatch: the events are taken in array order, one at a time.
C27_ArrayOrderOneAtATime ==
  \A r \in Tasks :
    InProgress(r) =>
      LET tk == tasks[r]
          i == Len(tk.payload) - Len(tk.events) + 1
      IN /\ tk.events # <<>>
         /\ tk.events = SubSeq(tk.payload, i, Len(tk.payload))
         /\ tk.mid = tk.payload[i].mid
         /\ tk.completionCalls <= i
         /\ tk.dispatchCalls <= tk.completionCalls
         /\ tk.completionCalls <= tk.dispatchCalls + 1
         /\ (tk.completionCalls = tk.dispatchCalls + 1) => tk.pc = "completion"
         /\ tk.markCalls < i

\* the second event of a payload of two different text messages is dispatched
\* after the first was answered, recorded and marked
C27_Witness ==
  /\ InProgress(1)
  /\ Len(tasks[1].payload) = 2
  /\ tasks[1].payload[1].mid # tasks[1].payload[2].mid
  /\ tasks[1].events = <<tasks[1].payload[2]>>
  /\ tasks[1].pc = "dispatch"
  /\ tasks[1].dispatchCalls = 2
  /\ tasks[1].markCalls = 1

\* C28: an event that is an echo, a duplicate or without text is never the
\* event being processed, and a request that has started no event (a failed
\* signature check, or ignored events only) has issued no call and written
\* nothing: every lookup, completion call, dispatch, store write and dedup
\* mark belongs to an event that is none of these.
C28_IgnoredHasNoEffect ==
  \A r \in Tasks :
    LET tk == tasks[r]
        ignorable(ev) == ev.echo \/ ev.mid \in processedMessages \/ ev.text = ""
    IN tk.path = "webhook" =>
         /\ InProgress(r) => ~ignorable(Head(tk.events))
         /\ tk.status = 401 => tk.nAdmitted = 0
         /\ tk.completionCalls <= tk.nAdmitted
         /\ tk.dispatchCalls <= tk.nAdmitted
         /\ tk.saveCalls <= tk.nAdmitted
         /\ tk.markCalls <= tk.nAdmitted
         /\ Len(marks) <= tk.nAdmitted
         /\ Len(conversations) <= tk.nAdmitted
         /\ \A k \in Keys : recorded[k] + leadsRecorded[k] <= 2 * tk.nAdmitted
         /\ tk.nAdmitted = 0 => \A k \in Keys : analytics[k] = NoRow

\* an echo was passed over, and the text message after it is the one being
\* processed
C28_Witness ==
  /\ InProgress(1)
  /\ Len(tasks[1].payload) = 2
  /\ tasks[1].payload[1].echo
  /\ Len(tasks[1].events) = 1
  /\ tasks[1].nAdmitted = 1
  /\ tasks[1].pc = "completion"

\* C24: a tenant lookup that fails or throws, in processMessagingEvent or in
\* the chat handler, is followed by the completion call, issued with the
\* generic prompt (the prompt of no tenant).
C24_LookupFailureDegrades ==
  [][\A r \in Tasks :
       (tasks[r].pc \in {"lookup", "origin"} /\ faults' # faults)
       => /\ tasks'[r].pc \in {"completion", "chatCompletion", "streamFetch"}
          /\ tasks'[r].promptClient = Undefined]_vars

\* C25: whenever corsMiddleware has set Access-Control-Allow-Origin (on a POST
\* or an OPTIONS preflight), the header is "*" unless the request origin is in
\* the allowed_origins of the tenant the origin resolves to, and then it is
\* that origin.
C25_OriginEchoedOnlyIfAllowed ==
  \A r \in Tasks :
    tasks[r].allowOrigin # Null
    => \/ tasks[r].allowOrigin = "*"
       \/ /\ tasks[r].allowOrigin = tasks[r].origin
          /\ tasks[r].origin
               \in getClientByOrigin(ActiveClients, tasks[r].origin).allowed_origins

\* C30: every streaming /api/chat response that ends is a sequence of content
\* frames closed by the frame [DONE], which occurs exactly once and last,
\* whether or not the upstream stream delivered a [DONE] line.
C30_StreamEndsWithDone ==
  \A r \in Tasks :
    (tasks[r].path = "chat" /\ tasks[r].stream
       /\ tasks[r].pc = "done" /\ tasks[r].status = 200)
    => /\ tasks[r].frames # <<>>
       /\ \A i \in 1..Len(tasks[r].frames) :
            (tasks[r].frames[i] = "[DONE]") <=> (i = Len(tasks[r].frames))

\* C31: a failure response of the weekly report and backup routes carries a
\* status and a fixed message only, never the text or the object of the error
\* the handler caught.
C31_NoErrorDetails ==
  (lastCall.op \in {"backup-data", "weekly-report"} /\ lastCall.result.status >= 400)
  => /\ lastCall.result.details = Undefined
     /\ lastCall.result.error \in {"Method not allowed", "Backup failed",
                                   "Internal server error", "Failed to fetch stats",
                                   "Failed to send email"}

\* C32: exchanges on the channels webchat and instagram recorded one after
\* another leave, in every analytics record, channel_webchat +
\* channel_instagram equal to total_conversations.
C32_ChannelsSumToTotal ==
  \A k \in Keys :
    analytics[k].channel_webchat + analytics[k].channel_instagram
      = analytics[k].total_conversations

\* three exchanges were recorded on one record, on both channels
C32_Witness ==
  \E k \in Keys :
    /\ analytics[k].total_conversations = 3
    /\ analytics[k].channel_webchat > 0
    /\ analytics[k].channel_instagram > 0

\* C40: a step changes the analytics record of key (T, D) only if it is the
\* upsert of an exchange or of a lead recorded for tenant T on day D; the
\* upsert of saveConversation leaves leads_captured of the record unchanged,
\* and the upsert of saveLead leaves total_conversations and both channel
\* counters unchanged.
C40_OnlyOwnRecord ==
  [][\A k \in Keys :
       analytics'[k] # analytics[k]
       => \E r \in Tasks :
            /\ k = <<tasks[r].clientId, tasks[r].date>>
            /\ tasks[r].pc \in {"upsert", "leadUpsert"}
            /\ tasks[r].pc = "upsert"
                 => analytics'[k].leads_captured = analytics[k].leads_captured
            /\ tasks[r].pc = "leadUpsert"
                 => /\ analytics'[k].total_conversations = analytics[k].total_conversations
                    /\ analytics'[k].channel_webchat = analytics[k].channel_webchat
                    /\ analytics'[k].channel_instagram = analytics[k].channel_instagram]_vars

\* both tenants have a record, one of them on the second day, and a lead was
\* counted on a record that holds an exchange
C40_Witness ==
  /\ \E d \in Dates : analytics[<<"t1", d>>].exists
  /\ analytics[<<"t2", 2>>].exists
  /\ \E k \in Keys : /\ analytics[k].total_conversations > 0
                      /\ analytics[k].leads_captured > 0

\* C38: with the exchanges handled one after another, a step of saveLead
\* marks a conversation record with the lead only if the exchange this
\* saveLead belongs to inserted a record, and then it marks that record (the
\* newest one); after a failed or skipped insert no record is marked.
C38_LeadOnOwnConversation ==
  [][\A i \in 1..Len(conversations) :
       (conversations'[i].lead_captured /\ ~conversations[i].lead_captured)
       => \E r \in Tasks :
            /\ tasks[r].pc = "leadUpdate"
            /\ tasks[r].inserted
            /\ i = Len(conversations)]_vars

\* C33: a mid enters the dedup set only in a step that ends the recording of
\* a delivery of that mid, that is after its completion call and its dispatch
\* call returned; the step in which a dispatch returns or throws leaves the
\* dedup set unchanged, so a mid whose dispatch threw is not in the set on
\* its account.
C33_MarkedOnlyAfterDispatch ==
  [][/\ \A X \in MessageIds :
          (X \in processedMessages' /\ X \notin processedMessages)
          => \E r \in Tasks :
               /\ tasks[r].mid = X
               /\ tasks[r].pc \in StorePcs
               /\ tasks[r].completionCalls > 0
               /\ tasks[r].dispatchCalls > 0
     /\ \A r \in Tasks :
          (tasks[r].pc = "dispatch" /\ tasks'[r] # tasks[r])
          => processedMessages' = processedMessages]_vars

\* a mid is delivered again after the dispatch of its first delivery threw,
\* and is admitted; and a mid in the set after its delivery was recorded
C33_Witness ==
  /\ tasks[1].retry
  /\ tasks[1].pc = "lookup"
  /\ tasks[1].mid \notin processedMessages

C33_WitnessMarked ==
  /\ tasks[1].pc = "done"
  /\ tasks[1].markCalls = 1
  /\ MidOf(1) \in processedMessages

\* C34: whenever the processing of an event of a payload ends, by returning
\* or by a tenant lookup or a dispatch that throws, the handler goes on with
\* the events after it in array order: it passes the events that are echoes,
\* duplicates or without text and starts the lookup of the first one that is
\* none of these, or answers 200 when there is none left.
C34_FailureContained ==
  [][\A r \in Tasks :
       (InProgress(r) /\ tasks'[r].events # tasks[r].events)
       => LET rest == Tail(tasks[r].events)
              left == tasks'[r].events
              passed == Len(rest) - Len(left)
              ignorable(ev) == ev.echo \/ ev.mid \in processedMessages' \/ ev.text = ""
          IN /\ passed >= 0
             /\ left = SubSeq(rest, passed + 1, Len(rest))
             /\ \A j \in 1..passed : ignorable(rest[j])
             /\ IF left = <<>>
                THEN tasks'[r].pc = "done" /\ tasks'[r].status = 200
                ELSE tasks'[r].pc = "lookup" /\ ~ignorable(Head(left))]_vars

\* the lookup of the second event of a payload has started after the dispatch
\* of the first threw, and after the lookup of the first threw
C34_Witness ==
  /\ InProgress(1)
  /\ Len(tasks[1].payload) = 2
  /\ Len(tasks[1].events) = 1
  /\ tasks[1].nAdmitted = 2
  /\ tasks[1].dispatchCalls = 1
  /\ tasks[1].markCalls = 0
  /\ tasks[1].pc = "lookup"

C34_WitnessLookup ==
  /\ InProgress(1)
  /\ Len(tasks[1].events) = 1
  /\ tasks[1].nAdmitted = 2
  /\ tasks[1].completionCalls = 0
  /\ faults = 1
  /\ tasks[1].pc = "lookup"

\* C35: a webhook POST has no response while its events are processed and
\* one response when it ends, with status 200, 401 or 500: 500 when the body
\* cannot be parsed as JSON, and then no event was processed, and otherwise,
\* the signature not being rejected with 401, 200 after the last event of the
\* payload has finished.
C35_StatusByParse ==
  \A r \in Tasks :
    tasks[r].path = "webhook"
    => /\ tasks[r].pc # "done" => tasks[r].status = 0
       /\ tasks[r].pc = "done"
          => /\ tasks[r].status \in {200, 401, 500}
             /\ tasks[r].status = 200 => tasks[r].events = <<>>
             /\ (tasks[r].status # 401 /\ ~tasks[r].parses)
                => tasks[r].status = 500 /\ tasks[r].nAdmitted = 0
             /\ (tasks[r].status # 401 /\ tasks[r].parses) => tasks[r].status = 200

\* C39: for every sequence of content fragments the completion gateway
\* streams and every way its body is cut into chunks, the read loop forwards
\* each fragment once and in order, followed by the terminator, and the reply
\* it accumulates for the conversation log is the concatenation of the
\* forwarded fragments.
C39_EveryFragmentForwarded ==
  lastCall.op = "readLoop" =>
    LET fs == lastCall.fragments
        out == lastCall.result
    IN /\ out.writes = fs \o <<"[DONE]">>
       /\ out.fullReply = join(fs, "")

\* C36: with a secret configured, verifySignature returns true or false for
\* every signature header, the headers whose hex part has the expected
\* length but holds a non-hex character included; it never throws.
C36_NeverThrows ==
  (lastCall.op = "verifySignature" /\ ~Falsy(META_APP_SECRET))
  => lastCall.result \in {"true", "false"}

\* C16: with a signing secret configured, a webhook POST (its body being
\* well-formed JSON) carrying a non-empty signature header that is not sha256=
\* followed by the HMAC-SHA256 of the raw body is answered 401 and none of its
\* events is processed.
C16_MismatchAnswers401 ==
  \A r \in Tasks :
    (/\ tasks[r].path = "webhook" /\ tasks[r].parses
     /\ ~Falsy(META_APP_SECRET)
     /\ ~NoHeader(tasks[r].signature)
     /\ tasks[r].signature # ValidSignature)
    => /\ tasks[r].pc = "done" /\ tasks[r].status = 401
       /\ tasks[r].nAdmitted = 0

\* C17: a webhook POST without a signature header (its body being well-formed
\* JSON) is answered with an unauthorized status and none of its events is
\* processed.
C17_UnsignedRejected ==
  \A r \in Tasks :
    (tasks[r].path = "webhook" /\ tasks[r].parses /\ ~tasks[r].signature.present)
    => /\ tasks[r].pc = "done" /\ tasks[r].status = 401
       /\ tasks[r].nAdmitted = 0

(***************************************************************************)
(* Claims about the synchronous entry points.                              *)
(***************************************************************************)
\* C18: for every signature header whose part after the removed sha256= prefix
\* differs in length from the expected hexadecimal digest, verifySignature
\* returns false, without reaching the comparison and without throwing.
C18_LengthMismatchIsFalse ==
  (/\ lastCall.op = "verifySignature"
   /\ Len(replaceFirst(lastCall.signature.chars, Prefix)) # 2 * DigestBytes)
  => lastCall.result = "false" /\ ~lastCall.compared

\* verifySignature ran, with a secret, on a prefixed header of hexadecimal
\* digits that is one digit short
C18_Witness ==
  /\ lastCall.op = "verifySignature"
  /\ ~Falsy(META_APP_SECRET)
  /\ Len(lastCall.signature.chars) = 2 * DigestBytes
  /\ Head(lastCall.signature.chars) = Prefix
  /\ \A i \in 2..Len(lastCall.signature.chars) : lastCall.signature.chars[i] \in HexDigits

\* C19: GET /webhook answers 200 with the body equal to hub.challenge (empty
\* when there is none) if and only if hub.mode is "subscribe" and
\* hub.verify_token equals the configured token, and 403 in every other case;
\* the handler is one step that touches nothing but its response.
C19_ChallengeEchoed ==
  /\ [](lastCall.op = "GET /webhook" =>
          /\ lastCall.status \in {200, 403}
          /\ lastCall.status = 200
                <=> (lastCall.mode = "subscribe" /\ lastCall.token = VERIFY_TOKEN)
          /\ lastCall.status = 200 =>
                IF lastCall.challenge = Undefined THEN lastCall.body = ""
                ELSE lastCall.body = lastCall.challenge)
  /\ [][lastCall'.op = "GET /webhook"
          => UNCHANGED <<flowVars, storeVars, today, envVars, ops, faults>>]_vars

\* a subscribe request with the right token and a challenge was answered
C19_Witness ==
  /\ lastCall.op = "GET /webhook"
  /\ lastCall.mode = "subscribe" /\ lastCall.token = VERIFY_TOKEN
  /\ lastCall.challenge = "1158201444"
  /\ lastCall.status = 200

(***************************************************************************)
(* Claims about the analytics aggregator.                                  *)
(***************************************************************************)
\* C9: with no store failure, after k saveLead operations on one key, run one
\* after another, leads_captured equals its initial value, 0, plus k.
C9_LeadCounterCounts ==
  faults = 0 => \A k \in Keys : analytics[k].leads_captured = leadsRecorded[k]

\* what a saveConversation upsert at task r does to the row it read
UpsertStep(r, Rule(_, _, _)) ==
  LET tk == tasks[r]
      key == <<tk.clientId, tk.date>>
  IN (tk.pc = "upsert" /\ analytics'[key] # analytics[key]
        /\ tk.existing = analytics[key])
       => Rule(analytics[key], tk.rt, analytics'[key].avg_response_time)

ExactMean(old, sample, new) ==
  IF sample > 0
  THEN new * (old.total_conversations + 1)
         = old.avg_response_time * old.total_conversations + sample
  ELSE new = old.avg_response_time

RoundedMean(old, sample, new) ==
  IF sample > 0
  THEN new = Round(old.avg_response_time * old.total_conversations + sample,
                   old.total_conversations + 1)
  ELSE new = old.avg_response_time

Expected == <<100, 150, 200>>

SampledMean(old, sample, new) ==
  IF sample > 0
  THEN new = Round(old.avg_response_time * old.channel_webchat + sample,
                   old.channel_webchat + 1)
  ELSE new = old.avg_response_time

\* C37: every exchange recorded with a response-time sample leaves
\* avg_response_time at the rounded mean over the exchanges that supplied a
\* sample, the exchanges recorded without one (webhook path) not counting; an
\* exchange without a sample leaves the value unchanged.
C37_MeanOfSamplesOnly == [][\A r \in Tasks : UpsertStep(r, SampledMean)]_vars

Distinct(s) == \A i, j \in 1..Len(s) : i # j => s[i] # s[j]

\* C4: for every non-empty id X, once markProcessed(X) has run, isDuplicate(X)
\* is true in every later state until a markProcessed call finds the set at
\* capacity and clears it: every id marked since the last clear is reported
\* as a duplicate.
C4_MarkedStaysSeen ==
  \A X \in sinceClear : ~Falsy(X) /\ isDuplicate(processedMessages, X)

\* a state where two ids were marked with no clear since, and isDuplicate ran
C4_Witness ==
  /\ Cardinality(sinceClear) = 2
  /\ clears = 1
  /\ lastCall.op = "isDuplicate" /\ lastCall.id \in sinceClear

\* C5: isDuplicate(null) and isDuplicate(undefined) return false in every
\* reachable state, and markProcessed of an absent id leaves the set unchanged,
\* so a non-echo text event without a mid is never ignored as a duplicate.
C5_AbsentIdNeverSeen ==
  /\ \A id \in FalsyIds : ~isDuplicate(processedMessages, id)
  /\ \A id \in FalsyIds, text \in Texts :
        ~Ignored([sender |-> TRUE, echo |-> FALSE, mid |-> id, text |-> text],
                 processedMessages)
  /\ processedMessages \cap FalsyIds = {}
  /\ (lastCall.op = "isDuplicate" /\ Falsy(lastCall.id)) => ~lastCall.result
  /\ (lastCall.op = "markProcessed" /\ Falsy(lastCall.id))
        => processedMessages = lastCall.before

\* markProcessed(undefined) ran on a non-empty set
C5_Witness ==
  /\ lastCall.op = "markProcessed"
  /\ lastCall.id = Undefined
  /\ processedMessages # {}

\* C6: from an empty set with capacity N, marking N+1 distinct ids causes
\* exactly one full clear, after which the set holds exactly the id whose
\* call triggered the clear; marking at most N distinct ids causes none.
C6_OneClearAfterCapacity ==
  Distinct(marks) =>
    /\ Len(marks) <= MAX_CACHE_SIZE => clears = 0
    /\ Len(marks) = MAX_CACHE_SIZE + 1 =>
         /\ clears = 1
         /\ (lastCall.op = "markProcessed" /\ ~Falsy(lastCall.id))
               => processedMessages = {marks[Len(marks)]}

\* N+1 distinct ids were marked, the last call being the one that cleared
C6_Witness ==
  /\ Distinct(marks)
  /\ Len(marks) = MAX_CACHE_SIZE + 1
  /\ lastCall.op = "markProcessed" /\ ~Falsy(lastCall.id)
  /\ Cardinality(lastCall.before) = MAX_CACHE_SIZE

\* C7: in every reachable state the dedup set holds at most MAX_CACHE_SIZE ids.
C7_SetBounded == Cardinality(processedMessages) <= MAX_CACHE_SIZE

\* the set is full and a further id has just been marked
C7_Witness ==
  /\ lastCall.op = "markProcessed" /\ ~Falsy(lastCall.id)
  /\ Cardinality(lastCall.before) = MAX_CACHE_SIZE
  /\ lastCall.id \notin lastCall.before

=============================================================================
